---------------------------- MODULE Spec2Model ----------------------------
(***************************************************************************)
(* Model of the NO2 feature-extraction pipeline of nasa-hackathon-tempo:   *)
(*   scripts/meteo_spatial_index.py  MeteoSpatialIndex (load, k-NN, IDW)    *)
(*   scripts/train-ml-model.py       historical aggregator, feature         *)
(*                                   extractor and their helpers            *)
(*                                                                         *)
(* Python floats are modelled as exact rationals: a value is a record      *)
(* [tag, n, d] with tag "num" (the rational n/d in lowest terms, d > 0),   *)
(* "none" (Python None), "nan", "inf" or "-inf" (float nan, +inf, -inf).   *)
(*                                                                         *)
(* Geometry.  Coordinates are integers in a grid unit of 0.5 km of         *)
(* latitude, taken at the latitude arccos(0.8) = 36.87 N (central          *)
(* California), where one unit of longitude spans 0.4 km.  At the scales   *)
(* used (< 40 km) the haversine distance between two grid points is        *)
(* sqrt((0.5*dlat)^2 + (0.4*dlon)^2) km; a distance is carried as its      *)
(* square in units of (0.1 km)^2, so that every comparison the code makes  *)
(* (dist <= radius, dist < min_dist, sort by dist) is decided exactly.     *)
(***************************************************************************)
EXTENDS Integers, Sequences, FiniteSets, TLC

VARIABLES
    \* ---- MeteoSpatialIndex -------------------------------------------
    openmeteo_dir,     \* the directory: file stem -> kind of its content
    next_file,         \* position of __init__'s loop in sorted(json_files)
    city_locations,    \* self.city_locations, as an insertion-ordered list
    cities_data,       \* self.cities_data: city name -> stored arrays
    meteo_query,       \* arguments of the last interpolate_meteo call
    meteo_result,      \* what that call returned or raised
    \* ---- historical aggregator ---------------------------------------
    epa_df,            \* the ground-truth table: a set of rows
    historical_cache,  \* result of calculate_epa_historical_features
    \* ---- feature extractor -------------------------------------------
    cells,             \* the grid snapshot: a list of cells
    wind_dir,          \* wind direction handed to extract_features
    call,              \* the other arguments handed to extract_features
    features,          \* result of extract_features
    physics,           \* the last call of convert_no2_to_surface
    served,            \* the last answer of a /predict handler
    \* ---- training driver ---------------------------------------------
    tempo_files,       \* sorted(TEMPO_DIR.glob("*.nc")): the snapshot files
    train,             \* main(): its position, meteo_cache and samples
    \* ---- sampling geometry, download script, pollutant merge ---------
    sample_points,     \* the sample points of the last subset gathering
    download,          \* download-crop-balanced.py: directories and loop
    pollutants,        \* the daily tables handed to merge_pollutants
    merged             \* what merge_pollutants returned or raised

meteoVars == <<openmeteo_dir, next_file, city_locations, cities_data,
               meteo_query, meteo_result>>
histVars  == <<epa_df, historical_cache>>
featVars  == <<cells, wind_dir, call, features, physics, served>>
trainVars == <<tempo_files, train>>
toolVars  == <<sample_points, download, pollutants, merged>>
vars      == <<meteoVars, histVars, featVars, trainVars, toolVars>>

(***************************************************************************)
(* Python values and exact arithmetic                                      *)
(***************************************************************************)
Abs(x) == IF x < 0 THEN -x ELSE x

Min2(a, b) == IF a <= b THEN a ELSE b

RECURSIVE GCD(_, _)
GCD(a, b) == IF b = 0 THEN Abs(a) ELSE GCD(b, a % b)

LCM(a, b) == (a \div GCD(a, b)) * b

Frac(n, d) ==
    LET s == IF d < 0 THEN -1 ELSE 1
        g == GCD(Abs(n), Abs(d))
    IN  [tag |-> "num", n |-> (s * n) \div g, d |-> (s * d) \div g]

Num(n)  == [tag |-> "num", n |-> n, d |-> 1]
None    == [tag |-> "none", n |-> 0, d |-> 1]
NaN     == [tag |-> "nan", n |-> 0, d |-> 1]
Inf     == [tag |-> "inf", n |-> 1, d |-> 1]
NegInf  == [tag |-> "-inf", n |-> -1, d |-> 1]

IsNum(x) == x.tag = "num"

\* x + y, x - y, x * y, x / y on finite numbers (y # 0 for RDiv)
RAdd(x, y) ==
    LET l == LCM(x.d, y.d)
    IN  Frac(x.n * (l \div x.d) + y.n * (l \div y.d), l)

RNeg(x) == [x EXCEPT !.n = -x.n]

RSub(x, y) == RAdd(x, RNeg(y))

RMul(x, y) ==
    LET g1 == GCD(Abs(x.n), y.d)
        g2 == GCD(Abs(y.n), x.d)
    IN  Frac((x.n \div g1) * (y.n \div g2), (x.d \div g2) * (y.d \div g1))

RDiv(x, y) ==
    LET l == LCM(x.d, y.d)
    IN  Frac(x.n * (l \div x.d), y.n * (l \div y.d))

RLess(x, y) ==
    LET l == LCM(x.d, y.d)
    IN  x.n * (l \div x.d) < y.n * (l \div y.d)

RECURSIVE RSum(_)
RSum(s) == IF s = <<>> THEN Num(0) ELSE RAdd(Head(s), RSum(Tail(s)))

\* floor of the square root, by bisection
RECURSIVE ISqrtIn(_, _, _)
ISqrtIn(x, lo, hi) ==
    IF lo >= hi THEN lo
    ELSE LET mid == (lo + hi + 1) \div 2
         IN  IF mid * mid <= x THEN ISqrtIn(x, mid, hi)
                               ELSE ISqrtIn(x, lo, mid - 1)

ISqrt(x) == ISqrtIn(x, 0, Min2(x, 46340))

(***************************************************************************)
(* Geodesy                                                                 *)
(***************************************************************************)
\* haversine_distance, as the square of the distance in units of 0.1 km
haversine_distance(lat1, lon1, lat2, lon2) ==
    (5 * (lat2 - lat1)) * (5 * (lat2 - lat1)) +
    (4 * (lon2 - lon1)) * (4 * (lon2 - lon1))

\* the grid script's sqrt(dlat**2 + dlon**2) * 111, as the square of the
\* distance in units of 0.1 km: a degree of longitude counts as a degree of
\* latitude
flat_earth_distance(lat1, lon1, lat2, lon2) ==
    (5 * (lat2 - lat1)) * (5 * (lat2 - lat1)) +
    (5 * (lon2 - lon1)) * (5 * (lon2 - lon1))

\* the distance in km behind a squared distance (exact when the two points
\* share a meridian, as all stations and queries of the meteo model do)
Km(dist2) == Frac(ISqrt(dist2), 10)


(***************************************************************************)
(* MeteoSpatialIndex: the station files                                    *)
(***************************************************************************)
NumStations == 3     \* station files that may lie in the directory
MaxK        == 3     \* largest k asked of interpolate_meteo

AllNames == <<"A", "B", "C", "D", "E">>

\* file stems, in sorted order
Names == SubSeq(AllNames, 1, Min2(NumStations, Len(AllNames)))

NameSet == {Names[i] : i \in 1..Len(Names)}

NameIndex(name) == CHOOSE i \in 1..Len(AllNames) : AllNames[i] = name

\* the keys of meteo_values, in dictionary order
MeteoVarSeq == <<"wind_speed", "wind_direction", "temperature",
                 "precipitation", "pbl_height", "surface_pressure",
                 "relative_humidity", "cloud_cover">>

MeteoVarSet == {MeteoVarSeq[i] : i \in 1..Len(MeteoVarSeq)}

VarIndex(var) == CHOOSE i \in 1..Len(MeteoVarSeq) : MeteoVarSeq[i] = var

\* the key of the hourly object that __init__ reads for a stored variable
HourlyKey(var) ==
    CASE var = "wind_speed"        -> "windspeed_10m"
      [] var = "wind_direction"    -> "winddirection_10m"
      [] var = "temperature"       -> "temperature_2m"
      [] var = "precipitation"     -> "precipitation"
      [] var = "pbl_height"        -> "boundary_layer_height"
      [] var = "surface_pressure"  -> "surface_pressure"
      [] var = "relative_humidity" -> "relative_humidity_2m"
      [] var = "cloud_cover"       -> "cloud_cover"

HourlyKeys == {HourlyKey(v) : v \in MeteoVarSet}

\* the defaults interpolate_meteo returns
DefaultMeteo(var) ==
    CASE var = "wind_speed"        -> Num(5)
      [] var = "wind_direction"    -> Num(270)
      [] var = "temperature"       -> Num(20)
      [] var = "precipitation"     -> Num(0)
      [] var = "pbl_height"        -> Num(800)
      [] var = "surface_pressure"  -> Num(1013)
      [] var = "relative_humidity" -> Num(60)
      [] var = "cloud_cover"       -> Num(50)

DefaultRecord == [var \in MeteoVarSet |-> DefaultMeteo(var)]

\* A timestamp string: the hour it names and its date/time separator
\* ("T" as OpenMeteo writes it, " " as the index stores and is queried);
\* NotAString stands for a JSON entry that is no string.
TimeStr(t, sep) == [t |-> t, sep |-> sep]
NotAString      == [t |-> 0, sep |-> "null"]

\* t.replace('T', ' ').replace('Z', '')
ReplaceT(ts) == [ts EXCEPT !.sep = " "]

\* a JSON array, JSON null, or a key that is absent
List(items) == [kind |-> "list", items |-> items]
NullJson    == [kind |-> "null", items |-> <<>>]
AbsentKey   == [kind |-> "absent", items |-> <<>>]

\* the stations lie on the meridian of the query point
StationLat(name) ==
    CASE name = "A" -> 0
      [] name = "B" -> 1
      [] name = "C" -> 2
      [] OTHER      -> NameIndex(name)

\* the reading of station `name` for variable `var` at hourly index i
Reading(name, var, i) == Num(NameIndex(name) + 2 * VarIndex(var) + 7 * (i - 1))

FullArray(name, var, n) == List([i \in 1..n |-> Reading(name, var, i)])

FileKinds == {"unreadable", "no_coords", "no_times", "bad_time", "full",
              "only_t2", "null_wind", "short", "null_array"}

\* what json.load yields for the file of station `name`
FileContent(name, kind) ==
    LET both  == <<TimeStr(1, "T"), TimeStr(2, "T")>>
        times == CASE kind = "no_times" -> <<>>
                   [] kind = "bad_time" -> <<TimeStr(1, "T"), NotAString>>
                   [] kind = "only_t2"  -> <<TimeStr(2, "T")>>
                   [] OTHER             -> both
        arr(var) ==
            CASE kind = "null_wind" /\ var = "wind_speed" ->
                     List(<<None, Reading(name, var, 2)>>)
              [] kind = "short" /\ var = "temperature" ->
                     List(<<Reading(name, var, 1)>>)
              [] kind = "short" /\ var = "pbl_height" -> AbsentKey
              [] kind = "null_array" /\ var = "cloud_cover" -> NullJson
              [] OTHER -> FullArray(name, var, Len(times))
    IN  [readable  |-> kind # "unreadable",
         latitude  |-> IF kind = "no_coords" THEN None
                       ELSE Num(StationLat(name)),
         longitude |-> Num(0),
         time      |-> times,
         hourly    |-> [key \in HourlyKeys |->
                          arr(CHOOSE v \in MeteoVarSet : HourlyKey(v) = key)]]

\* sorted(json_files): the stems present in the directory
json_files == SelectSeq(Names, LAMBDA n : openmeteo_dir[n] # "absent")

\* hourly.get(key, [])
HourlyGet(hourly, key) ==
    IF hourly[key].kind = "absent" THEN List(<<>>) ELSE hourly[key]

\* the entry __init__ stores for a station
CityRecord(data) ==
    [lat   |-> data.latitude,
     lon   |-> data.longitude,
     times |-> [i \in 1..Len(data.time) |-> ReplaceT(data.time[i])],
     vals  |-> [var \in MeteoVarSet |-> HourlyGet(data.hourly, HourlyKey(var))]]

\* one iteration of __init__'s loop over sorted(json_files)
LoadStation ==
    /\ next_file <= Len(json_files)
    /\ LET name == json_files[next_file]
           data == FileContent(name, openmeteo_dir[name])
       IN  IF \/ ~data.readable
              \/ data.latitude = None \/ data.longitude = None
              \/ data.time = <<>>
           THEN UNCHANGED <<city_locations, cities_data>>
           ELSE /\ city_locations' =
                     Append(city_locations,
                            <<name, data.latitude.n, data.longitude.n>>)
                /\ IF \E i \in 1..Len(data.time) : data.time[i] = NotAString
                   THEN UNCHANGED cities_data    \* t.replace raises
                   ELSE cities_data' = (name :> CityRecord(data)) @@ cities_data
    /\ next_file' = next_file + 1
    /\ UNCHANGED <<openmeteo_dir, meteo_query, meteo_result, histVars, featVars, trainVars, toolVars>>

(***************************************************************************)
(* MeteoSpatialIndex: queries                                              *)
(***************************************************************************)
\* insert x into the sorted list s after every entry whose distance is not
\* greater: list.sort is stable
RECURSIVE InsertByDist(_, _)
InsertByDist(s, x) ==
    IF s = <<>> THEN <<x>>
    ELSE IF x[2] < Head(s)[2] THEN <<x>> \o s
    ELSE <<Head(s)>> \o InsertByDist(Tail(s), x)

RECURSIVE SortByDist(_)
SortByDist(s) ==
    IF s = <<>> THEN <<>>
    ELSE InsertByDist(SortByDist(SubSeq(s, 1, Len(s) - 1)), s[Len(s)])

\* distances[:k] for k >= 0
Take(s, k) == SubSeq(s, 1, Min2(k, Len(s)))

\* mutant: the first k stations in dictionary order, without the sort
get_nearest_cities_Unsorted(locs, lat, lon, k) ==
    IF locs = <<>> THEN <<>>
    ELSE LET distances == [i \in 1..Len(locs) |->
                 <<locs[i][1], haversine_distance(lat, lon, locs[i][2], locs[i][3])>>]
         IN  Take(distances, k)

get_nearest_cities(locs, lat, lon, k) ==
    IF locs = <<>> THEN <<>>
    ELSE LET distances == [i \in 1..Len(locs) |->
                 <<locs[i][1], haversine_distance(lat, lon, locs[i][2], locs[i][3])>>]
         IN  Take(SortByDist(distances), k)

\* mutant: a station without the exact timestamp answers with its first record
IndexOf_Nearest(times, timestamp) ==
    IF \E i \in 1..Len(times) : times[i] = timestamp
    THEN CHOOSE i \in 1..Len(times) :
             /\ times[i] = timestamp
             /\ \A j \in 1..(i - 1) : times[j] # timestamp
    ELSE Min2(1, Len(times))

\* times.index(timestamp): the first position, 0 for ValueError
IndexOf(times, timestamp) ==
    IF \E i \in 1..Len(times) : times[i] = timestamp
    THEN CHOOSE i \in 1..Len(times) :
             /\ times[i] = timestamp
             /\ \A j \in 1..(i - 1) : times[j] # timestamp
    ELSE 0

\* city_data.get('times', []) of self.cities_data.get(city_name, {})
CityTimes(data, name) ==
    IF name \in DOMAIN data THEN data[name].times ELSE <<>>

\* mutant: inverse distance, not squared
Weight_NotSquared(distance) ==
    RDiv(Num(1), RAdd(Km(distance), Frac(1, 10)))

\* weight = 1.0 / (distance + 0.1)**2
Weight(distance) ==
    LET x == RAdd(Km(distance), Frac(1, 10))
    IN  RDiv(Num(1), RMul(x, x))

\* mutant: a null entry counts as the value 0
Contribution_NullAsZero(city, var, idx, weight) ==
    LET values_array == city.vals[var]
    IN  IF idx <= Len(values_array.items)
        THEN (IF values_array.items[idx] # None
              THEN RMul(values_array.items[idx], weight)
              ELSE Num(0))
        ELSE Num(0)

\* what one matched station appends to meteo_values[var]
Contribution(city, var, idx, weight) ==
    LET values_array == city.vals[var]
    IN  IF idx <= Len(values_array.items)
        THEN (IF values_array.items[idx] # None
              THEN RMul(values_array.items[idx], weight)
              ELSE None)
        ELSE None

\* mutant: the k nearest are taken among the stations that hold the
\* timestamp, so a farther station replaces a nearer one without it
interpolate_meteo_Replacing(data, locs, lat, lon, timestamp, k) ==
    LET having  == SelectSeq(locs, LAMBDA c :
                       IndexOf(CityTimes(data, c[1]), timestamp) > 0)
        nearest == get_nearest_cities(having, lat, lon, k)
        \* the stations the loop does not skip
        matched == SelectSeq(nearest,
                     LAMBDA c : IndexOf(CityTimes(data, c[1]), timestamp) > 0)
        idx(i)  == IndexOf(data[matched[i][1]].times, timestamp)
        weights == [i \in 1..Len(matched) |-> Weight(matched[i][2])]
        \* len(values_array) on a variable stored as None
        raises  == \E i \in 1..Len(matched), var \in MeteoVarSet :
                       data[matched[i][1]].vals[var].kind = "null"
        meteo_values(var) ==
            [i \in 1..Len(matched) |->
                 Contribution(data[matched[i][1]], var, idx(i), weights[i])]
        total_weight == RSum(weights)
        valid_values(var) == SelectSeq(meteo_values(var), LAMBDA v : v # None)
    IN  IF nearest = <<>> THEN [status |-> "ok", rec |-> DefaultRecord]
        ELSE IF raises THEN [status |-> "TypeError", rec |-> DefaultRecord]
        ELSE IF weights = <<>> THEN [status |-> "ok", rec |-> DefaultRecord]
        ELSE [status |-> "ok",
              rec |-> [var \in MeteoVarSet |->
                         IF valid_values(var) # <<>>
                         THEN RDiv(RSum(valid_values(var)), total_weight)
                         ELSE DefaultMeteo(var)]]

interpolate_meteo(data, locs, lat, lon, timestamp, k) ==
    LET nearest == get_nearest_cities(locs, lat, lon, k)
        \* the stations the loop does not skip
        matched == SelectSeq(nearest,
                     LAMBDA c : IndexOf(CityTimes(data, c[1]), timestamp) > 0)
        idx(i)  == IndexOf(data[matched[i][1]].times, timestamp)
        weights == [i \in 1..Len(matched) |-> Weight(matched[i][2])]
        \* len(values_array) on a variable stored as None
        raises  == \E i \in 1..Len(matched), var \in MeteoVarSet :
                       data[matched[i][1]].vals[var].kind = "null"
        meteo_values(var) ==
            [i \in 1..Len(matched) |->
                 Contribution(data[matched[i][1]], var, idx(i), weights[i])]
        total_weight == RSum(weights)
        valid_values(var) == SelectSeq(meteo_values(var), LAMBDA v : v # None)
    IN  IF nearest = <<>> THEN [status |-> "ok", rec |-> DefaultRecord]
        ELSE IF raises THEN [status |-> "TypeError", rec |-> DefaultRecord]
        ELSE IF weights = <<>> THEN [status |-> "ok", rec |-> DefaultRecord]
        ELSE [status |-> "ok",
              rec |-> [var \in MeteoVarSet |->
                         IF valid_values(var) # <<>>
                         THEN RDiv(RSum(valid_values(var)), total_weight)
                         ELSE DefaultMeteo(var)]]

QueryLats  == {1}
QueryTimes == {TimeStr(1, " "), TimeStr(2, " ")}

NoQuery  == [lat |-> 0, lon |-> 0, timestamp |-> TimeStr(0, " "), k |-> 0]
NoResult == [status |-> "none", rec |-> DefaultRecord]

\* a call of interpolate_meteo on the constructed index
Interpolate ==
    /\ next_file > Len(json_files)
    /\ meteo_result = NoResult
    /\ \E lat \in QueryLats, ts \in QueryTimes, k \in 1..MaxK :
         /\ meteo_query' = [lat |-> lat, lon |-> 0, timestamp |-> ts, k |-> k]
         /\ meteo_result' =
                interpolate_meteo(cities_data, city_locations, lat, 0, ts, k)
    /\ UNCHANGED <<openmeteo_dir, next_file, city_locations, cities_data,
                   histVars, featVars, trainVars, toolVars>>

MeteoIdle ==
    /\ openmeteo_dir = [n \in NameSet |-> "absent"]
    /\ next_file = 1
    /\ city_locations = <<>>
    /\ cities_data = <<>>
    /\ meteo_query = NoQuery
    /\ meteo_result = NoResult

HistIdle == epa_df = {} /\ historical_cache = [built |-> FALSE, cache |-> <<>>]

TrainIdle == tempo_files = <<>> /\ train = <<>>

ToolsIdle ==
    sample_points = <<>> /\ download = <<>> /\ pollutants = <<>> /\ merged = <<>>

FeatIdle ==
    /\ cells = <<>> /\ wind_dir = 0 /\ call = <<>>
    /\ features = [status |-> "none", vec |-> <<>>]
    /\ physics = <<>>
    /\ served = <<>>

InitMeteo ==
    /\ openmeteo_dir \in [NameSet -> FileKinds]
    /\ next_file = 1
    /\ city_locations = <<>>
    /\ cities_data = <<>>
    /\ meteo_query = NoQuery
    /\ meteo_result = NoResult
    /\ HistIdle
    /\ FeatIdle
    /\ TrainIdle
    /\ ToolsIdle

NextMeteo == LoadStation \/ Interpolate

SpecMeteo == InitMeteo /\ [][NextMeteo]_vars

(***************************************************************************)
(* Historical aggregator: calculate_epa_historical_features                *)
(*                                                                         *)
(* A row of epa_df is [station, timestamp, value]: the station's (State    *)
(* Code, County Code, Site Num), the timestamp in minutes and the          *)
(* measurement.  A station holds at most one row per timestamp; a missing  *)
(* measurement is nan.                                                     *)
(***************************************************************************)
MaxRows == 3     \* rows of epa_df

Hour == 60
Day  == 1440

\* (State Code, County Code, Site Num) of the monitoring sites
Sites == {<<6, 37, 2>>, <<6, 111, 2>>}

EpaTimes  == {0, 23 * Hour, 24 * Hour, 25 * Hour, 48 * Hour, 192 * Hour}
EpaValues == {Num(10), Num(20), Num(5), Num(-4)}

RECURSIVE Digits(_)
Digits(n) == IF n < 10 THEN <<n>> ELSE Append(Digits(n \div 10), n % 10)

\* str.zfill(width)
RECURSIVE ZFill(_, _)
ZFill(ds, width) == IF Len(ds) >= width THEN ds ELSE ZFill(<<0>> \o ds, width)

\* State + '_' + County.zfill(3) + '_' + Site.zfill(4), as its three fields
StationId(site) ==
    <<Digits(site[1]), ZFill(Digits(site[2]), 3), ZFill(Digits(site[3]), 4)>>

\* strftime('%Y-%m-%d %H:%M:%S'): day, hour, minute, second
Strftime(ts) == <<ts \div Day, (ts % Day) \div Hour, ts % Hour, 0>>

\* epa_df[epa_df['station_id'] == station_id]
StationData(df, station_id) == {r \in df : StationId(r.station) = station_id}

ValueSum(rows) ==
    LET RECURSIVE Go(_)
        Go(T) == IF T = {} THEN Num(0)
                 ELSE LET r == CHOOSE x \in T : TRUE
                      IN  RAdd(r.value, Go(T \ {r}))
    IN  Go(rows)

\* mutant: a window that also holds the row at exactly t - window
Rolling_Closed(station_data, t, window) ==
    LET inside == {r \in station_data :
                      t - window <= r.timestamp /\ r.timestamp <= t}
    IN  RDiv(ValueSum(inside), Num(Cardinality(inside)))

\* mutant: a window of the two latest rows, whatever their age
Rolling_TwoRows(station_data, t, window) ==
    LET upto   == {r \in station_data : r.timestamp <= t}
        inside == {r \in upto :
                      Cardinality({q \in upto : q.timestamp > r.timestamp}) < 2}
    IN  RDiv(ValueSum(inside), Num(Cardinality(inside)))

\* station_data['value'].rolling(window, min_periods=1).mean() at time t:
\* a time window closed on the right and open on the left; a missing
\* measurement (nan) is no observation
Rolling(station_data, t, window) ==
    LET inside == {r \in station_data :
                      /\ t - window < r.timestamp /\ r.timestamp <= t
                      /\ IsNum(r.value)}
    IN  IF inside = {} THEN NaN
        ELSE RDiv(ValueSum(inside), Num(Cardinality(inside)))

\* mutant: shift(1), the previous row of the station
Shift24h_PrevRow(station_data, t) ==
    LET before == {r \in station_data : r.timestamp < t}
    IN  {r \in before : \A q \in before : q.timestamp <= r.timestamp}

\* station_data['value'].shift(freq=24h) at time t: the rows observed at
\* exactly t - 24h (none: NaN)
Shift24h(station_data, t) ==
    {r \in station_data : r.timestamp + 24 * Hour = t}

\* mutant: the denominator without abs()
Trend_NoAbs(value, ago) ==
    RDiv(RSub(value, ago), RAdd(ago, Frac(1, 10)))

\* (value - value_24h_ago) / (value_24h_ago.abs() + 0.1)
Trend(value, ago) ==
    RDiv(RSub(value, ago), RAdd(Num(Abs(ago.n)), Frac(1, 10)))

\* x if pd.notna(x) else 0
NotNaOrZero(x) == IF x.tag = "nan" THEN Num(0) ELSE x

\* the three features of one row of a station
StationFeatures(station_data, row) ==
    LET ago == Shift24h(station_data, row.timestamp)
    IN  [no2_avg_24h   |->
             NotNaOrZero(Rolling(station_data, row.timestamp, 24 * Hour)),
         no2_avg_7d    |->
             NotNaOrZero(Rolling(station_data, row.timestamp, 7 * Day)),
         no2_trend_24h |->
             IF \/ ago = {} \/ ~IsNum(row.value)
                \/ ~IsNum((CHOOSE r \in ago : TRUE).value)
             THEN Num(0)     \* fillna(0)
             ELSE Trend(row.value, (CHOOSE r \in ago : TRUE).value)]

calculate_epa_historical_features(df) ==
    LET unique_stations == {StationId(r.station) : r \in df}
    IN  [station_id \in unique_stations |->
            LET station_data == StationData(df, station_id)
            IN  [timestamp_str \in {Strftime(r.timestamp) : r \in station_data} |->
                    StationFeatures(station_data,
                        CHOOSE r \in station_data :
                            Strftime(r.timestamp) = timestamp_str)]]

NoCache == [built |-> FALSE, cache |-> <<>>]

\* one more row in the table the run reads
AddRow ==
    /\ ~historical_cache.built
    /\ Cardinality(epa_df) < MaxRows
    /\ \E site \in Sites, t \in EpaTimes, v \in EpaValues :
         /\ \A r \in epa_df : ~(r.station = site /\ r.timestamp = t)
         /\ epa_df' = epa_df \cup {[station |-> site, timestamp |-> t, value |-> v]}
    /\ UNCHANGED <<historical_cache, meteoVars, featVars, trainVars, toolVars>>

\* main(), step 2.6
CalcHistorical ==
    /\ ~historical_cache.built
    /\ historical_cache' =
           [built |-> TRUE, cache |-> calculate_epa_historical_features(epa_df)]
    /\ UNCHANGED <<epa_df, meteoVars, featVars, trainVars, toolVars>>

InitHist ==
    /\ epa_df = {}
    /\ historical_cache = NoCache
    /\ MeteoIdle
    /\ FeatIdle
    /\ TrainIdle
    /\ ToolsIdle

NextHist == AddRow \/ CalcHistorical

SpecHist == InitHist /\ [][NextHist]_vars

(***************************************************************************)
(* Feature extractor: float arithmetic with nan and inf                    *)
(***************************************************************************)
\* x - y
FSub(x, y) ==
    CASE x.tag = "nan" \/ y.tag = "nan" -> NaN
      [] x.tag = "num" /\ y.tag = "num" -> RSub(x, y)
      [] x.tag = y.tag                  -> NaN        \* inf - inf
      [] x.tag = "inf" \/ y.tag = "-inf" -> Inf
      [] OTHER                          -> NegInf

\* x / c for a finite c > 0
FDivBy(x, c) == IF x.tag = "num" THEN RDiv(x, Num(c)) ELSE x

\* x > 0 (False for nan)
FPositive(x) == x.tag = "inf" \/ (x.tag = "num" /\ x.n > 0)

\* bool(x): None and 0 are falsy, nan and the infinities are truthy
Truthy(x) == ~(x.tag = "none" \/ (x.tag = "num" /\ x.n = 0))

\* sqrt of a finite x >= 0, rounded down to a hundredth
FSqrt(x) == Frac(ISqrt(x.n * x.d * 10000), x.d * 100)

(***************************************************************************)
(* Feature extractor: cell queries                                         *)
(***************************************************************************)
\* mutant: the radius test on the flat-earth distance
get_cells_in_radius_FlatEarth(cs, center_lat, center_lon, radius_km) ==
    SelectSeq(cs, LAMBDA cell :
        flat_earth_distance(center_lat, center_lon, cell.latitude, cell.longitude)
            <= (10 * radius_km) * (10 * radius_km))

get_cells_in_radius(cs, center_lat, center_lon, radius_km) ==
    SelectSeq(cs, LAMBDA cell :
        haversine_distance(center_lat, center_lon, cell.latitude, cell.longitude)
            <= (10 * radius_km) * (10 * radius_km))

\* move_location for the bearings 0, 90, 180, 270: 1 km is 2 units of
\* latitude, and 2.5 units of longitude (distance_km is a multiple of 10)
move_location(lat, lon, bearing, distance_km) ==
    CASE bearing = 0   -> <<lat + 2 * distance_km, lon>>
      [] bearing = 90  -> <<lat, lon + (5 * distance_km) \div 2>>
      [] bearing = 180 -> <<lat - 2 * distance_km, lon>>
      [] bearing = 270 -> <<lat, lon - (5 * distance_km) \div 2>>

get_upwind_cells(cs, center_lat, center_lon, wind_direction, distance_km, search_radius_km) ==
    LET upwind == move_location(center_lat, center_lon, wind_direction, distance_km)
    IN  get_cells_in_radius(cs, upwind[1], upwind[2], search_radius_km)

\* A bearing is the double deg + off * 2^-45, deg a whole number of degrees
\* and off a small offset: 2^-45 is the spacing of the doubles in
\* [128, 256), the spacing is 2^-44 in [256, 512) and 2^-43 in [512, 1024).
Whole(n) == [deg |-> n, off |-> 0]

\* the bearing is smaller than the whole number b
BelowWhole(x, b) == x.deg < b \/ (x.deg = b /\ x.off < 0)

\* the spacing of the doubles around x, in units of 2^-45 (x >= 128)
UlpUnits(x) ==
    IF BelowWhole(x, 256) THEN 1 ELSE IF BelowWhole(x, 512) THEN 2 ELSE 4

\* round-to-nearest, ties to the even mantissa
RoundToEven(off, ulp) ==
    LET lo == ulp * (off \div ulp)
        hi == lo + ulp
    IN  IF off - lo < hi - off THEN lo
        ELSE IF off - lo > hi - off THEN hi
        ELSE IF (lo \div ulp) % 2 = 0 THEN lo ELSE hi

\* the double x + n for a whole n >= 128
FloatAdd(x, n) ==
    LET sum == [deg |-> x.deg + n, off |-> x.off]
    IN  [deg |-> sum.deg, off |-> RoundToEven(sum.off, UlpUnits(sum))]

\* the double x % n for x in [0, 2n): the remainder is exact
FloatMod(x, n) == IF BelowWhole(x, n) THEN x ELSE [x EXCEPT !.deg = x.deg - n]

\* mutant: the opposite bearing without the reduction modulo 360
downwind_direction_NoWrap(wind_direction) == FloatAdd(wind_direction, 180)

\* downwind_direction = (wind_direction + 180) % 360
downwind_direction(wind_direction) ==
    FloatMod(FloatAdd(wind_direction, 180), 360)

get_downwind_cells(cs, center_lat, center_lon, wind_direction, distance_km, search_radius_km) ==
    LET downwind == move_location(center_lat, center_lon,
                        downwind_direction(Whole(wind_direction)).deg,
                        distance_km)
    IN  get_cells_in_radius(cs, downwind[1], downwind[2], search_radius_km)

get_cells_in_direction(cs, center_lat, center_lon, bearing, distance_km, search_radius_km) ==
    LET target == move_location(center_lat, center_lon, bearing, distance_km)
    IN  get_cells_in_radius(cs, target[1], target[2], search_radius_km)

\* [c['no2_column'] for c in cells if c.get('no2_column') and c['no2_column'] > 0]
extract_no2_values(cs) ==
    LET kept == SelectSeq(cs, LAMBDA c :
                    Truthy(c.no2_column) /\ FPositive(c.no2_column))
    IN  [i \in 1..Len(kept) |-> kept[i].no2_column]

HasInf(values) == \E i \in 1..Len(values) : values[i].tag = "inf"

\* np.mean of finite values
Mean(values) == RDiv(RSum(values), Num(Len(values)))

\* the values are positive numbers or +inf
safe_avg(values) ==
    IF Len(values) > 0
    THEN (IF HasInf(values) THEN Inf ELSE Mean(values))
    ELSE Num(0)

safe_max(values) ==
    IF Len(values) > 0
    THEN (IF HasInf(values) THEN Inf
          ELSE CHOOSE v \in {values[i] : i \in 1..Len(values)} :
                   \A i \in 1..Len(values) : ~RLess(v, values[i]))
    ELSE Num(0)

safe_min(values) ==
    IF Len(values) > 0
    THEN LET finite == SelectSeq(values, IsNum)
         IN  IF finite = <<>> THEN Inf
             ELSE CHOOSE v \in {finite[i] : i \in 1..Len(finite)} :
                      \A i \in 1..Len(finite) : ~RLess(finite[i], v)
    ELSE Num(0)

\* np.std: the root of the mean squared deviation; nan once a value is inf
safe_std(values) ==
    IF Len(values) > 0
    THEN (IF HasInf(values) THEN NaN
          ELSE LET m   == Mean(values)
                   dev == [i \in 1..Len(values) |->
                              RMul(RSub(values[i], m), RSub(values[i], m))]
               IN  FSqrt(Mean(dev)))
    ELSE Num(0)

\* mutant: `dist <= min_dist`, the last cell at minimal distance
find_nearest_cell_LastOfTies(cs, lat, lon) ==
    LET dist(i) == haversine_distance(lat, lon, cs[i].latitude, cs[i].longitude)
    IN  IF cs = <<>> THEN <<>>
        ELSE <<cs[CHOOSE i \in 1..Len(cs) :
                     /\ \A j \in 1..Len(cs) : dist(i) <= dist(j)
                     /\ \A j \in (i + 1)..Len(cs) : dist(j) > dist(i)]>>

\* the first cell at minimal distance, <<>> for None
find_nearest_cell(cs, lat, lon) ==
    LET dist(i) == haversine_distance(lat, lon, cs[i].latitude, cs[i].longitude)
    IN  IF cs = <<>> THEN <<>>
        ELSE <<cs[CHOOSE i \in 1..Len(cs) :
                     /\ \A j \in 1..Len(cs) : dist(i) <= dist(j)
                     /\ \A j \in 1..(i - 1) : dist(j) > dist(i)]>>

(***************************************************************************)
(* Feature extractor: physical baseline, clock and geography               *)
(*                                                                         *)
(* A column density is carried in units of 1e15 molecules/cm2.  A value of *)
(* np.sin or np.cos is kept as the unevaluated term [tag |-> "sin" or      *)
(* "cos", n |-> k, d |-> p] for an argument 2*pi*k/p, except at argument 0 *)
(* (0.0 and 1.0), the only one where the float result is a whole number.   *)
(***************************************************************************)
Max2(a, b) == IF a >= b THEN a ELSE b

\* x * c for a finite c > 0
FScale(x, c) == IF x.tag = "num" THEN RMul(x, c) ELSE x

\* x <= 0 (False for nan)
FNonPositive(x) == x.tag = "-inf" \/ (x.tag = "num" /\ x.n <= 0)

PBL_REF == 800

\* 1.8749
NO2_FACTOR == Frac(18749, 10000)

\* 2e-16 per molecule/cm2, for a column in units of 1e15
BASE_FACTOR == Frac(1, 5)

\* mutant: only the sign is tested
convert_no2_to_surface_SignOnly(no2_column, pbl_height) ==
    IF FNonPositive(no2_column) THEN Num(0)
    ELSE LET no2_surface == FScale(FScale(no2_column, BASE_FACTOR), NO2_FACTOR)
             pbl_factor  == FSqrt(Frac(PBL_REF, Max2(pbl_height, 300)))
         IN  FScale(no2_surface, pbl_factor)

convert_no2_to_surface(no2_column, pbl_height) ==
    IF ~Truthy(no2_column) \/ FNonPositive(no2_column) THEN Num(0)
    ELSE LET no2_surface == FScale(FScale(no2_column, BASE_FACTOR), NO2_FACTOR)
             pbl_factor  == FSqrt(Frac(PBL_REF, Max2(pbl_height, 300)))
         IN  FScale(no2_surface, pbl_factor)

\* (hour - 8) % 24
LocalHour(hour) == (hour - 8) % 24

\* mutant: the factor is chosen by the UTC hour
DiurnalFactor_Utc(hour) ==
    CASE 6 <= hour /\ hour < 10  -> Frac(115, 100)
      [] 10 <= hour /\ hour < 16 -> Frac(85, 100)
      [] 16 <= hour /\ hour < 20 -> Frac(11, 10)
      [] OTHER                   -> Num(1)

\* the if/elif chain on local_hour
DiurnalFactor(hour) ==
    LET local_hour == LocalHour(hour)
    IN  CASE 6 <= local_hour /\ local_hour < 10  -> Frac(115, 100)
          [] 10 <= local_hour /\ local_hour < 16 -> Frac(85, 100)
          [] 16 <= local_hour /\ local_hour < 20 -> Frac(11, 10)
          [] OTHER                               -> Num(1)

\* np.sin(2 * np.pi * k / p) and np.cos(2 * np.pi * k / p)
SinTurn(k, p) == IF k = 0 THEN Num(0) ELSE [tag |-> "sin", n |-> k, d |-> p]
CosTurn(k, p) == IF k = 0 THEN Num(1) ELSE [tag |-> "cos", n |-> k, d |-> p]

\* x * t for a finite x and a sine or cosine t
TrigScale(x, t) ==
    IF t.tag = "num" THEN RMul(x, t)
    ELSE [tag |-> "mul", n |-> <<x.n, x.d>>, d |-> <<t.tag, t.n, t.d>>]

\* MAJOR_CITIES: offset from the site in grid units, population in thousands
MAJOR_CITIES ==
    << <<2, 1, 3900>>,      <<-296, 245, 1400>>, <<736, -815, 1000>>,
       <<831, -927, 875>>,  <<596, -337, 542>>,  <<1002, -735, 525>>,
       <<-61, 7, 466>>,     <<831, -927, 440>>,  <<300, -177, 403>>,
       <<-45, 74, 346>> >>

\* get_geographic_features, with distances rounded down to whole km and
\* weights to whole thousands of inhabitants per km
get_geographic_features(lat, lon) ==
    LET dist(i) == ISqrt(haversine_distance(lat, lon, MAJOR_CITIES[i][1],
                                            MAJOR_CITIES[i][2])) \div 10
        weight(i) == MAJOR_CITIES[i][3] \div Max2(dist(i), 1)
        RECURSIVE total(_)
        total(i) == IF i = 0 THEN 0 ELSE weight(i) + total(i - 1)
        idx == 1..Len(MAJOR_CITIES)
    IN  [urban_proximity_index |-> Frac(total(Len(MAJOR_CITIES)), 1000),
         distance_to_nearest_city_km |->
             Num(CHOOSE m \in {dist(i) : i \in idx} : \A i \in idx : m <= dist(i))]

(***************************************************************************)
(* Feature extractor: extract_features                                     *)
(*                                                                         *)
(* An optional argument (station_id, timestamp, epa_historical) is <<>>    *)
(* for None and <<x>> for the value x; the unused argument meteo is left   *)
(* out.  The result carries the vector and its keys in insertion order.    *)
(***************************************************************************)
\* mutant: the format '%Y-%m-%d %H:%M' of the meteo lookup
TimestampStr_Minutes(timestamp) ==
    <<timestamp \div Day, (timestamp % Day) \div Hour, timestamp % Hour>>

\* timestamp.strftime('%Y-%m-%d %H:%M:%S') of the lookup
TimestampStr(timestamp) == Strftime(timestamp)

\* d.get(key, default) on a dict held as a function
DictGet(d, key, default) == IF key \in DOMAIN d THEN d[key] ELSE default

\* the historical features of (station_id, timestamp), {} when not found
HistoricalLookup(station_id, timestamp, epa_historical) ==
    IF /\ epa_historical # <<>> /\ DOMAIN epa_historical[1] # {}
       /\ station_id # <<>>
       /\ timestamp # <<>>
    THEN DictGet(DictGet(epa_historical[1], station_id[1], <<>>),
                 TimestampStr(timestamp[1]), <<>>)
    ELSE <<>>

\* the keys of the dict literal, in the order they are written
LiteralKeys ==
    <<"no2_column_center", "urban_proximity_index",
      "distance_to_nearest_city_km",
      "no2_avg_5km", "no2_max_5km", "no2_min_5km", "no2_std_5km",
      "no2_avg_10km", "no2_max_10km", "no2_min_10km", "no2_std_10km",
      "no2_avg_20km", "no2_max_20km", "no2_min_20km", "no2_std_20km",
      "no2_upwind_10km_avg", "no2_upwind_10km_max", "no2_upwind_10km_std",
      "no2_upwind_20km_avg", "no2_upwind_20km_max", "no2_upwind_20km_std",
      "no2_upwind_30km_avg", "no2_upwind_30km_max", "no2_upwind_30km_std",
      "no2_downwind_10km_avg", "no2_downwind_10km_max",
      "no2_downwind_10km_std",
      "no2_north_10km", "no2_north_std_10km",
      "no2_east_10km", "no2_east_std_10km",
      "no2_south_10km", "no2_south_std_10km",
      "no2_west_10km", "no2_west_std_10km",
      "gradient_NS", "gradient_EW", "gradient_upwind_downwind",
      "gradient_center_avg",
      "wind_speed", "wind_direction", "wind_u", "wind_v", "pbl_height",
      "temperature", "precipitation", "pbl_normalized",
      "hour", "day_of_week", "month",
      "hour_sin", "hour_cos", "day_sin", "day_cos",
      "physics_prediction">>

\* features[key] = ... : a new key goes last, a known key keeps its place
SetKey(keys, key) ==
    IF \E i \in 1..Len(keys) : keys[i] = key THEN keys ELSE Append(keys, key)

\* the keys after the assignments that follow the dict literal
FeatureKeys(timestamp) ==
    LET k1 == SetKey(SetKey(SetKey(LiteralKeys, "no2_avg_24h"), "no2_avg_7d"),
                     "no2_trend_24h")
        k2 == SetKey(SetKey(SetKey(k1, "wind_speed_x_upwind_no2"),
                            "hour_x_urban"), "pbl_x_center_no2")
    IN  IF timestamp # <<>>
        THEN SetKey(SetKey(SetKey(k2, "day_of_year"), "month_sin"), "month_cos")
        ELSE SetKey(SetKey(SetKey(k2, "day_of_year"), "month_sin"), "month_cos")

extract_features(cs, epa_lat, epa_lon, wind_speed, wind, pbl_height, temp, precip, hour, day_of_week, month, station_id, timestamp, epa_historical) ==
    LET center_cell == find_nearest_cell(cs, epa_lat, epa_lon)
        no2_5km   == extract_no2_values(get_cells_in_radius(cs, epa_lat, epa_lon, 5))
        no2_10km  == extract_no2_values(get_cells_in_radius(cs, epa_lat, epa_lon, 10))
        no2_20km  == extract_no2_values(get_cells_in_radius(cs, epa_lat, epa_lon, 20))
        no2_upwind_10 ==
            extract_no2_values(get_upwind_cells(cs, epa_lat, epa_lon, wind, 10, 5))
        no2_upwind_20 ==
            extract_no2_values(get_upwind_cells(cs, epa_lat, epa_lon, wind, 20, 5))
        no2_upwind_30 ==
            extract_no2_values(get_upwind_cells(cs, epa_lat, epa_lon, wind, 30, 5))
        no2_downwind ==
            extract_no2_values(get_downwind_cells(cs, epa_lat, epa_lon, wind, 10, 5))
        no2_north ==
            extract_no2_values(get_cells_in_direction(cs, epa_lat, epa_lon, 0, 10, 5))
        no2_east ==
            extract_no2_values(get_cells_in_direction(cs, epa_lat, epa_lon, 90, 10, 5))
        no2_south ==
            extract_no2_values(get_cells_in_direction(cs, epa_lat, epa_lon, 180, 10, 5))
        no2_west ==
            extract_no2_values(get_cells_in_direction(cs, epa_lat, epa_lon, 270, 10, 5))
        center == center_cell[1].no2_column
        physics_pred ==
            FScale(convert_no2_to_surface(center, pbl_height), DiurnalFactor(hour))
        local_hour == LocalHour(hour)
        geo_features == get_geographic_features(epa_lat, epa_lon)
        historical == HistoricalLookup(station_id, timestamp, epa_historical)
    IN  IF center_cell = <<>> THEN [status |-> "None", vec |-> <<>>, keys |-> <<>>]
        \* None - safe_avg(no2_10km) in the dict literal
        ELSE IF center.tag = "none"
        THEN [status |-> "TypeError", vec |-> <<>>, keys |-> <<>>]
        ELSE [status |-> "ok", keys |-> FeatureKeys(timestamp), vec |->
          [no2_column_center     |-> center,
           urban_proximity_index |-> geo_features.urban_proximity_index,
           distance_to_nearest_city_km |->
               geo_features.distance_to_nearest_city_km,
           no2_avg_5km           |-> safe_avg(no2_5km),
           no2_max_5km           |-> safe_max(no2_5km),
           no2_min_5km           |-> safe_min(no2_5km),
           no2_std_5km           |-> safe_std(no2_5km),
           no2_avg_10km          |-> safe_avg(no2_10km),
           no2_max_10km          |-> safe_max(no2_10km),
           no2_min_10km          |-> safe_min(no2_10km),
           no2_std_10km          |-> safe_std(no2_10km),
           no2_avg_20km          |-> safe_avg(no2_20km),
           no2_max_20km          |-> safe_max(no2_20km),
           no2_min_20km          |-> safe_min(no2_20km),
           no2_std_20km          |-> safe_std(no2_20km),
           no2_upwind_10km_avg   |-> safe_avg(no2_upwind_10),
           no2_upwind_10km_max   |-> safe_max(no2_upwind_10),
           no2_upwind_10km_std   |-> safe_std(no2_upwind_10),
           no2_upwind_20km_avg   |-> safe_avg(no2_upwind_20),
           no2_upwind_20km_max   |-> safe_max(no2_upwind_20),
           no2_upwind_20km_std   |-> safe_std(no2_upwind_20),
           no2_upwind_30km_avg   |-> safe_avg(no2_upwind_30),
           no2_upwind_30km_max   |-> safe_max(no2_upwind_30),
           no2_upwind_30km_std   |-> safe_std(no2_upwind_30),
           no2_downwind_10km_avg |-> safe_avg(no2_downwind),
           no2_downwind_10km_max |-> safe_max(no2_downwind),
           no2_downwind_10km_std |-> safe_std(no2_downwind),
           no2_north_10km        |-> safe_avg(no2_north),
           no2_north_std_10km    |-> safe_std(no2_north),
           no2_east_10km         |-> safe_avg(no2_east),
           no2_east_std_10km     |-> safe_std(no2_east),
           no2_south_10km        |-> safe_avg(no2_south),
           no2_south_std_10km    |-> safe_std(no2_south),
           no2_west_10km         |-> safe_avg(no2_west),
           no2_west_std_10km     |-> safe_std(no2_west),
           gradient_NS |->
               FDivBy(FSub(safe_avg(no2_north), safe_avg(no2_south)), 20000),
           gradient_EW |->
               FDivBy(FSub(safe_avg(no2_east), safe_avg(no2_west)), 20000),
           gradient_upwind_downwind |->
               FDivBy(FSub(safe_avg(no2_upwind_10), safe_avg(no2_downwind)), 20000),
           gradient_center_avg |->
               FDivBy(FSub(center, safe_avg(no2_10km)), 10000),
           wind_speed     |-> wind_speed,
           wind_direction |-> Num(wind),
           wind_u         |-> TrigScale(wind_speed, CosTurn(wind, 360)),
           wind_v         |-> TrigScale(wind_speed, SinTurn(wind, 360)),
           pbl_height     |-> Num(pbl_height),
           temperature    |-> temp,
           precipitation  |-> precip,
           pbl_normalized |-> Frac(pbl_height, 800),
           hour           |-> Num(local_hour),
           day_of_week    |-> Num(day_of_week),
           month          |-> Num(month),
           hour_sin       |-> SinTurn(local_hour, 24),
           hour_cos       |-> CosTurn(local_hour, 24),
           day_sin        |-> SinTurn(day_of_week, 7),
           day_cos        |-> CosTurn(day_of_week, 7),
           physics_prediction |-> physics_pred,
           no2_avg_24h    |-> DictGet(historical, "no2_avg_24h", Num(0)),
           no2_avg_7d     |-> DictGet(historical, "no2_avg_7d", Num(0)),
           no2_trend_24h  |-> DictGet(historical, "no2_trend_24h", Num(0)),
           wind_speed_x_upwind_no2 |->
               FScale(safe_avg(no2_upwind_30), wind_speed),
           hour_x_urban   |->
               RMul(Num(local_hour), geo_features.urban_proximity_index),
           pbl_x_center_no2 |-> FScale(center, Num(pbl_height)),
           day_of_year |->
               IF timestamp # <<>> THEN Num(timestamp[1] \div Day + 1)
                                   ELSE Num(0),
           month_sin   |->
               IF timestamp # <<>> THEN SinTurn(month, 12) ELSE Num(0),
           month_cos   |->
               IF timestamp # <<>> THEN CosTurn(month, 12) ELSE Num(0)]]

MaxCells == 2     \* cells of a grid snapshot

\* the monitoring site, origin of the grid
EpaRow == [latitude |-> 0, longitude |-> 0]

\* cell positions: the site, and 10, 20, 30 km north, 10 km south, east, west
CellPositions == {<<0, 0>>, <<20, 0>>, <<40, 0>>, <<60, 0>>, <<-20, 0>>,
                  <<0, 25>>, <<0, -25>>}

CellValues == {None, Num(0), Num(-3), NaN, Inf, Num(2), Num(6)}

WindDirs == {0, 90}

NoFeatures == [status |-> "none", vec |-> <<>>, keys |-> <<>>]

\* the arguments get_meteo_for_time supplies without a station index, a
\* snapshot taken at 00:00 UTC on a Monday of January, no historical lookup
DefaultCall ==
    [wind_speed |-> Num(5), pbl_height |-> PBL_REF, temp |-> Num(20),
     precip |-> Num(0), hour |-> 0, day_of_week |-> 0, month |-> 1,
     station_id |-> <<>>, timestamp |-> <<>>, epa_historical |-> <<>>]

NoAnswer == [handler |-> "none", order |-> "none", status |-> 0, X |-> <<>>]

NoPhysics == [called |-> FALSE, no2_column |-> None, pbl_height |-> 0,
              result |-> None]

\* one more cell in the snapshot handed to extract_features
AddCell ==
    /\ features = NoFeatures
    /\ Len(cells) < MaxCells
    /\ \E pos \in CellPositions, v \in CellValues :
         /\ \A i \in 1..Len(cells) :
                <<cells[i].latitude, cells[i].longitude>> # pos
         /\ cells' = Append(cells, [latitude |-> pos[1], longitude |-> pos[2],
                                    no2_column |-> v])
    /\ UNCHANGED <<wind_dir, call, features, physics, served, meteoVars, histVars, trainVars, toolVars>>

ExtractFeatures ==
    /\ features = NoFeatures
    /\ features' =
           extract_features(cells, EpaRow.latitude, EpaRow.longitude,
                            call.wind_speed, wind_dir, call.pbl_height,
                            call.temp, call.precip, call.hour,
                            call.day_of_week, call.month, call.station_id,
                            call.timestamp, call.epa_historical)
    /\ UNCHANGED <<cells, wind_dir, call, physics, served, meteoVars, histVars, trainVars, toolVars>>

InitFeat ==
    /\ cells = <<>>
    /\ wind_dir \in WindDirs
    /\ call = DefaultCall
    /\ features = NoFeatures
    /\ physics = NoPhysics
    /\ served = NoAnswer
    /\ MeteoIdle
    /\ HistIdle
    /\ TrainIdle
    /\ ToolsIdle

NextFeat == AddCell \/ ExtractFeatures

SpecFeat == InitFeat /\ [][NextFeat]_vars

(***************************************************************************)
(* convert_no2_to_surface called on its own                                *)
(***************************************************************************)
\* column densities: absent, zero, negative, not finite, positive
ColumnValues == {None, Num(0), Num(-3), Frac(-1, 2), NegInf, NaN, Inf,
                 Frac(1, 2), Num(1), Num(2), Num(6)}

\* boundary-layer heights in metres, on both sides of the floor of 300
PblHeights == {-50, 0, 100, 250, 300, 320, 500, 800, 1600, 3200}

ConvertNo2 ==
    /\ \E no2_column \in ColumnValues, pbl_height \in PblHeights :
         physics' = [called |-> TRUE, no2_column |-> no2_column,
                     pbl_height |-> pbl_height,
                     result |-> convert_no2_to_surface(no2_column, pbl_height)]
    /\ UNCHANGED <<cells, wind_dir, call, features, served, meteoVars, histVars, trainVars, toolVars>>

InitPhysics ==
    /\ cells = <<>>
    /\ wind_dir = 0
    /\ call = DefaultCall
    /\ features = NoFeatures
    /\ physics = NoPhysics
    /\ served = NoAnswer
    /\ MeteoIdle
    /\ HistIdle
    /\ TrainIdle
    /\ ToolsIdle

NextPhysics == ConvertNo2

SpecPhysics == InitPhysics /\ [][NextPhysics]_vars

(***************************************************************************)
(* extract_features called with every argument, and the /predict handlers  *)
(* of scripts/ml-api/app.py and apps/ml-service/main.py fed its vector     *)
(***************************************************************************)
\* the snapshots: no cell, or one cell at the site
CallGrids ==
    {<<>>} \cup
    {<<[latitude |-> 0, longitude |-> 0, no2_column |-> v]>> :
        v \in {Num(0), Num(-3), NaN, Inf, Num(2), Num(6)}}

\* the table the historical index is built from
HistRows ==
    {[station |-> <<6, 37, 2>>, timestamp |-> 0, value |-> Num(10)],
     [station |-> <<6, 37, 2>>, timestamp |-> 24 * Hour, value |-> Num(20)]}

\* the arguments: every UTC hour, two months, a station with and without
\* rows, a timestamp with and without a row, no index, an empty index and
\* the index of HistRows
CallInputs ==
    [wind_speed : {Num(5)}, pbl_height : {250, 800}, temp : {Num(20)},
     precip : {Num(0)}, hour : 0..23, day_of_week : {0}, month : {3, 12},
     station_id : {<<>>, <<StationId(<<6, 37, 2>>)>>, <<StationId(<<6, 111, 2>>)>>},
     timestamp : {<<>>, <<24 * Hour>>, <<25 * Hour>>},
     epa_historical : {<<>>, << <<>> >>,
                       <<calculate_epa_historical_features(HistRows)>>}]

\* feature_names.json: the columns of the training frame, i.e. the keys of
\* the vectors main() collects (it always passes a timestamp)
FEATURE_NAMES == FeatureKeys(<<0>>)

\* the JSON object of a request: the vector's items in some key order,
\* or in reversed order without the first name of the list
RequestOrders == {"reversed", "rotated", "incomplete"}

RequestBody(vec, keys, order) ==
    LET n == Len(keys)
        at(i) == IF order = "rotated" THEN keys[(i % n) + 1] ELSE keys[n + 1 - i]
        m == IF order = "incomplete" THEN n - 1 ELSE n
    IN  [i \in 1..m |-> <<at(i), vec[at(i)]>>]

\* body[name]
BodyValue(body, name) == body[CHOOSE i \in 1..Len(body) : body[i][1] = name][2]

BodyKeys(body) == {body[i][1] : i \in 1..Len(body)}

\* mutant: the values in the order of the request
FeatureValues_RequestOrder(body, names) == [i \in 1..Len(names) |-> body[i][2]]

\* [request.features[name] for name in FEATURE_NAMES]
FeatureValues(body, names) ==
    [i \in 1..Len(names) |-> BodyValue(body, names[i])]

\* scripts/ml-api/app.py, POST /predict
Predict ==
    /\ features.status = "ok"
    /\ served = NoAnswer
    /\ \E order \in RequestOrders :
         LET body == RequestBody(features.vec, features.keys, order)
             missing_features ==
                 {FEATURE_NAMES[i] : i \in 1..Len(FEATURE_NAMES)} \ BodyKeys(body)
         IN  served' =
                 IF missing_features # {}
                 THEN [handler |-> "predict", order |-> order, status |-> 400,
                       X |-> <<>>]
                 ELSE [handler |-> "predict", order |-> order, status |-> 200,
                       X |-> FeatureValues(body, FEATURE_NAMES)]
    /\ UNCHANGED <<cells, wind_dir, call, features, physics, meteoVars, histVars, trainVars, toolVars>>

\* scripts/ml-api-server.py, POST /predict: the HTTPException raised in
\* the try block is an Exception and reaches `except Exception`
PredictServer ==
    /\ features.status = "ok"
    /\ served = NoAnswer
    /\ \E order \in RequestOrders :
         LET body == RequestBody(features.vec, features.keys, order)
             missing_features ==
                 {FEATURE_NAMES[i] : i \in 1..Len(FEATURE_NAMES)} \ BodyKeys(body)
             raised == IF missing_features # {} THEN <<400>> ELSE <<>>
         IN  served' =
                 IF raised # <<>>
                 THEN [handler |-> "ml-api-server", order |-> order,
                       status |-> 500, X |-> <<>>]
                 ELSE [handler |-> "ml-api-server", order |-> order,
                       status |-> 200,
                       X |-> FeatureValues(body, FEATURE_NAMES)]
    /\ UNCHANGED <<cells, wind_dir, call, features, physics, meteoVars, histVars, trainVars, toolVars>>

\* apps/ml-service/main.py, POST /predict with the model loaded
PredictNo2 ==
    /\ features.status = "ok"
    /\ served = NoAnswer
    \* the request model declares every field: the handler only sees
    \* requests that hold them all
    /\ \E order \in RequestOrders \ {"incomplete"} :
         LET feature_dict == RequestBody(features.vec, features.keys, order)
         IN  served' =
                 IF \E i \in 1..Len(FEATURE_NAMES) :
                        FEATURE_NAMES[i] \notin BodyKeys(feature_dict)
                 THEN [handler |-> "predict_no2", order |-> order,
                       status |-> 500, X |-> <<>>]
                 ELSE [handler |-> "predict_no2", order |-> order,
                       status |-> 200,
                       X |-> FeatureValues(feature_dict, FEATURE_NAMES)]
    /\ UNCHANGED <<cells, wind_dir, call, features, physics, meteoVars, histVars, trainVars, toolVars>>

InitCall ==
    /\ cells \in CallGrids
    /\ wind_dir = 270
    /\ call \in CallInputs
    /\ features = NoFeatures
    /\ physics = NoPhysics
    /\ served = NoAnswer
    /\ MeteoIdle
    /\ HistIdle
    /\ TrainIdle
    /\ ToolsIdle

NextCall == ExtractFeatures

SpecCall == InitCall /\ [][NextCall]_vars

\* the calls whose vector is sent to the servers
ServeInputs ==
    {c \in CallInputs : /\ c.pbl_height = 800 /\ c.month = 3
                        /\ c.hour \in {0, 14}
                        /\ c.station_id # <<>> /\ c.epa_historical # << <<>> >>}

InitServe ==
    /\ cells \in CallGrids
    /\ wind_dir = 270
    /\ call \in ServeInputs
    /\ features = NoFeatures
    /\ physics = NoPhysics
    /\ served = NoAnswer
    /\ MeteoIdle
    /\ HistIdle
    /\ TrainIdle
    /\ ToolsIdle

NextServe == ExtractFeatures \/ Predict \/ PredictServer \/ PredictNo2

SpecServe == InitServe /\ [][NextServe]_vars

(***************************************************************************)
(* Training driver: main(), the extraction loop                            *)
(*                                                                         *)
(* A snapshot file is held as what the loop reads of it: the number of     *)
(* '_' separated fields of its name, whether field 4 parses as a time, the *)
(* time it names, and the return code and standard output of the grid      *)
(* extraction subprocess run on it.  Snapshot times are off the hour, as   *)
(* in "20240110T141610Z".                                                  *)
(***************************************************************************)
MaxFiles == 2     \* snapshot files in TEMPO_DIR

MinSamples == 50

\* where the monitoring sites of the EPA table stand
SiteLocation(site) == IF site = <<6, 37, 2>> THEN <<0, 0>> ELSE <<0, 25>>

\* the rows of no2.csv, in file order
TrainEpa ==
    <<[station |-> <<6, 37, 2>>,  timestamp |-> 0,         value |-> Num(10)],
      [station |-> <<6, 37, 2>>,  timestamp |-> 23 * Hour, value |-> Num(5)],
      [station |-> <<6, 111, 2>>, timestamp |-> 24 * Hour, value |-> Num(5)],
      [station |-> <<6, 37, 2>>,  timestamp |-> 24 * Hour, value |-> Num(-4)],
      [station |-> <<6, 37, 2>>,  timestamp |-> 25 * Hour, value |-> NaN],
      [station |-> <<6, 37, 2>>,  timestamp |-> 26 * Hour, value |-> Num(0)]>>

SnapshotKinds == {"short_name", "bad_time", "subprocess_fails", "bad_json",
                  "no_cells", "no_epa", "good", "late"}

GridCell(lat, lon, v) == [latitude |-> lat, longitude |-> lon, no2_column |-> v]

\* the snapshot file of each kind
Snapshot(kind) ==
    [kind       |-> kind,
     fields     |-> IF kind = "short_name" THEN 3 ELSE 7,
     time_ok    |-> kind # "bad_time",
     timestamp  |-> CASE kind = "short_name"       -> 20 * Hour + 16
                      [] kind = "bad_time"         -> 21 * Hour + 16
                      [] kind = "subprocess_fails" -> 22 * Hour + 16
                      [] kind = "bad_json"         -> 23 * Hour + 16
                      [] kind = "no_cells"         -> 24 * Hour + 46
                      [] kind = "no_epa"           -> 100 * Hour + 16
                      [] kind = "good"             -> 24 * Hour + 16
                      [] kind = "late"             -> 25 * Hour + 16,
     returncode |-> IF kind = "subprocess_fails" THEN 1 ELSE 0,
     json_ok    |-> kind # "bad_json",
     cells      |-> CASE kind = "good" ->
                             <<GridCell(0, 0, Num(2)), GridCell(0, 25, NaN)>>
                      [] kind = "late" ->
                             <<GridCell(0, 0, Num(6)), GridCell(0, 25, Num(3))>>
                      [] kind = "no_epa" -> <<GridCell(0, 0, Num(2))>>
                      [] OTHER -> <<>>]

\* datetime.hour, datetime.weekday() and datetime.month of a time in the
\* first weeks of a January that begins on a Monday
TsHour(ts)    == (ts % Day) \div Hour
TsWeekday(ts) == (ts \div Day) % 7
TsMonth(ts)   == 1

\* timestamp.strftime('%Y-%m-%d %H:%M'): equal to a station's hourly time
\* string only on the hour
StrftimeMinute(ts) ==
    IF ts % Hour = 0 THEN TimeStr(ts \div Hour, " ")
    ELSE [t |-> ts, sep |-> "minutes"]

\* what load_openmeteo_data returns: <<>> for None
load_openmeteo_data(exists, data, locs) ==
    IF ~exists THEN <<>>
    ELSE IF data = <<>> THEN <<>>
    ELSE <<[cities_data |-> data, city_locations |-> locs]>>

get_meteo_for_time(meteo_index, timestamp, lat, lon) ==
    IF meteo_index = <<>>
    THEN [status |-> "ok",
          rec |-> [wind_speed |-> Num(5), wind_direction |-> Num(270),
                   temperature |-> Num(20), precipitation |-> Num(0),
                   pbl_height |-> Num(PBL_REF)]]
    ELSE interpolate_meteo(meteo_index[1].cities_data,
                           meteo_index[1].city_locations,
                           lat, lon, StrftimeMinute(timestamp), 3)

\* np.isfinite
IsFinite(x) == x.tag = "num"

\* mutant: the gate without the tests of the ground-truth value
ValidSample_CenterOnly(feats, epa_row) ==
    ~(~IsFinite(feats.no2_column_center)
        \/ FNonPositive(feats.no2_column_center))

\* the validity gate of the loop: neither `continue` is taken
ValidSample(feats, epa_row) ==
    /\ ~(~IsFinite(feats.no2_column_center)
           \/ FNonPositive(feats.no2_column_center))
    /\ ~(~IsFinite(epa_row.value) \/ epa_row.value.n < 0)

\* features['target'] = ...; features['timestamp'] = ...
Sample(feats, epa_row, timestamp) ==
    [vec  |-> [target |-> epa_row.value, timestamp |-> timestamp]
                  @@ feats.vec,
     keys |-> SetKey(SetKey(feats.keys, "target"), "timestamp")]

\* the rows within two hours of the snapshot, in file order
MatchingEpa(df, timestamp) ==
    SelectSeq(df, LAMBDA r : /\ r.timestamp >= timestamp - 2 * Hour
                             /\ r.timestamp <= timestamp + 2 * Hour)

\* the loop over matching_epa.iterrows(): the samples list when the loop
\* ends or an exception leaves it
RECURSIVE ExtractRows(_, _, _, _, _)
ExtractRows(rows, f, meteo_cache, epa_historical, samples) ==
    IF rows = <<>> THEN samples
    ELSE LET epa_row == Head(rows)
             loc     == SiteLocation(epa_row.station)
             meteo   == get_meteo_for_time(meteo_cache, f.timestamp,
                                           loc[1], loc[2])
             feats ==
                 extract_features(f.cells, loc[1], loc[2],
                     meteo.rec.wind_speed, meteo.rec.wind_direction.n,
                     meteo.rec.pbl_height.n, meteo.rec.temperature,
                     meteo.rec.precipitation, TsHour(f.timestamp),
                     TsWeekday(f.timestamp), TsMonth(f.timestamp),
                     <<StationId(epa_row.station)>>, <<f.timestamp>>,
                     <<epa_historical>>)
         IN  IF meteo.status # "ok" \/ feats.status = "TypeError"
             THEN samples
             ELSE IF feats.status = "None"
             THEN ExtractRows(Tail(rows), f, meteo_cache, epa_historical,
                              samples)
             ELSE IF ~ValidSample(feats.vec, epa_row)
             THEN ExtractRows(Tail(rows), f, meteo_cache, epa_historical,
                              samples)
             ELSE ExtractRows(Tail(rows), f, meteo_cache, epa_historical,
                      Append(samples, Sample(feats, epa_row, f.timestamp)))

\* mutant: an exception in the body of the loop ends the run's list
LoopBody_ExceptionResets(f, df, meteo_cache, epa_historical, samples) ==
    IF f.fields < 5 THEN samples
    ELSE IF ~f.time_ok THEN <<>>
    ELSE IF f.returncode # 0 THEN samples
    ELSE IF ~f.json_ok THEN <<>>
    ELSE IF Len(f.cells) = 0 THEN samples
    ELSE IF Len(MatchingEpa(df, f.timestamp)) = 0 THEN samples
    ELSE ExtractRows(MatchingEpa(df, f.timestamp), f, meteo_cache,
                     epa_historical, samples)

\* one iteration of `for i, filepath in enumerate(sample_files)`: the
\* samples list after it
LoopBody(f, df, meteo_cache, epa_historical, samples) ==
    IF f.fields < 5 THEN samples                      \* continue
    ELSE IF ~f.time_ok THEN samples                   \* strptime raises
    ELSE IF f.returncode # 0 THEN samples             \* continue
    ELSE IF ~f.json_ok THEN samples                   \* json.loads raises
    ELSE IF Len(f.cells) = 0 THEN samples             \* continue
    ELSE IF Len(MatchingEpa(df, f.timestamp)) = 0 THEN samples
    ELSE ExtractRows(MatchingEpa(df, f.timestamp), f, meteo_cache,
                     epa_historical, samples)

TrainEpaSet == {TrainEpa[i] : i \in 1..Len(TrainEpa)}

\* main(), steps 2.5 and 2.6: the station index and the historical cache
LoadOpenMeteoData ==
    /\ train.pc = "load"
    /\ next_file > Len(json_files)
    /\ train' = [train EXCEPT
                   !.pc = "extract",
                   !.meteo_cache =
                       load_openmeteo_data(train.exists, cities_data,
                                           city_locations)]
    /\ historical_cache' =
           [built |-> TRUE, cache |-> calculate_epa_historical_features(epa_df)]
    /\ UNCHANGED <<epa_df, tempo_files, meteoVars, featVars, toolVars>>

\* main(), step 4: the loop body on the next snapshot file
ProcessFile ==
    /\ train.pc = "extract"
    /\ train.i <= Len(tempo_files)
    /\ train' = [train EXCEPT
                   !.i = train.i + 1,
                   !.samples = LoopBody(tempo_files[train.i], TrainEpa,
                                        train.meteo_cache,
                                        historical_cache.cache, train.samples)]
    /\ UNCHANGED <<tempo_files, meteoVars, histVars, featVars, toolVars>>

\* main() after the loop: too few samples end the run with a message
Finish ==
    /\ train.pc = "extract"
    /\ train.i > Len(tempo_files)
    /\ train' = [train EXCEPT
                   !.pc = "done",
                   !.outcome = IF Len(train.samples) < MinSamples
                               THEN "returned" ELSE "training"]
    /\ UNCHANGED <<tempo_files, meteoVars, histVars, featVars, toolVars>>

\* the station directories of the training runs: every file of one kind, or
\* one file that cannot be used among full ones
TrainDirs ==
    {[n \in NameSet |-> kind] :
         kind \in {"unreadable", "no_coords", "no_times", "full"}}
    \cup {[n \in NameSet |-> IF n = bad THEN kind ELSE "full"] :
              bad \in NameSet, kind \in {"unreadable", "no_coords", "no_times"}}

\* the lists of distinct snapshot files
TrainFiles ==
    {fs \in UNION {[1..n -> SnapshotKinds] : n \in 0..MaxFiles} :
         \A i, j \in 1..Len(fs) : i # j => fs[i] # fs[j]}

InitTrain ==
    /\ \E exists \in BOOLEAN :
         /\ train = [pc |-> "load", exists |-> exists, meteo_cache |-> <<>>,
                     i |-> 1, samples |-> <<>>, outcome |-> "running"]
         /\ IF exists THEN openmeteo_dir \in TrainDirs
            ELSE openmeteo_dir = [n \in NameSet |-> "absent"]
    /\ \E fs \in TrainFiles :
         tempo_files = [i \in 1..Len(fs) |-> Snapshot(fs[i])]
    /\ next_file = 1
    /\ city_locations = <<>>
    /\ cities_data = <<>>
    /\ meteo_query = NoQuery
    /\ meteo_result = NoResult
    /\ epa_df = TrainEpaSet
    /\ historical_cache = NoCache
    /\ FeatIdle
    /\ ToolsIdle

NextTrain == LoadStation \/ LoadOpenMeteoData \/ ProcessFile \/ Finish

SpecTrain == InitTrain /\ [][NextTrain]_vars

(***************************************************************************)
(* extract_features, steps 3 to 5: the sample points of the subsets        *)
(*                                                                         *)
(* A sample point is held as the arguments that reach move_location and    *)
(* get_cells_in_radius: the bearing and the distance of the projection and *)
(* the collection radius.  Wind directions are the doubles of [0, 360) at  *)
(* a whole number of degrees and up to MaxOffset spacings around it.       *)
(***************************************************************************)
MaxOffset == 4     \* offsets around a whole degree, in units of 2^-45

\* the doubles a wind direction is drawn from
WindDirections ==
    {x \in [deg : 0..360, off : (-MaxOffset)..MaxOffset] :
         /\ ~BelowWhole(x, 0) /\ BelowWhole(x, 360)
         /\ x.off % UlpUnits(x) = 0}

SamplePoint(subset, bearing, distance_km, search_radius_km) ==
    [subset |-> subset, bearing |-> bearing, distance_km |-> distance_km,
     search_radius_km |-> search_radius_km]

\* the point get_upwind_cells hands to move_location
UpwindPoint(subset, wind_direction, distance_km, search_radius_km) ==
    SamplePoint(subset, wind_direction, distance_km, search_radius_km)

\* the point get_downwind_cells hands to move_location
DownwindPoint(subset, wind_direction, distance_km, search_radius_km) ==
    SamplePoint(subset, downwind_direction(wind_direction), distance_km,
                search_radius_km)

\* the calls of extract_features that gather the directional subsets
SamplePoints(wind) ==
    <<UpwindPoint("upwind_10km", wind, 10, 5),
      UpwindPoint("upwind_20km", wind, 20, 5),
      UpwindPoint("upwind_30km", wind, 30, 5),
      DownwindPoint("downwind_10km", wind, 10, 5),
      SamplePoint("north_10km", Whole(0), 10, 5),
      SamplePoint("east_10km", Whole(90), 10, 5),
      SamplePoint("south_10km", Whole(180), 10, 5),
      SamplePoint("west_10km", Whole(270), 10, 5)>>

\* extract_features up to the cardinal subsets, for one wind direction
GatherSubsets ==
    /\ sample_points = <<>>
    /\ sample_points' = SamplePoints(wind_dir)
    /\ UNCHANGED <<download, pollutants, merged, meteoVars, histVars, featVars, trainVars>>

InitWind ==
    /\ wind_dir \in WindDirections
    /\ cells = <<>> /\ call = <<>>
    /\ features = [status |-> "none", vec |-> <<>>]
    /\ physics = <<>> /\ served = <<>>
    /\ sample_points = <<>> /\ download = <<>> /\ pollutants = <<>>
    /\ merged = <<>>
    /\ MeteoIdle
    /\ HistIdle
    /\ TrainIdle

NextWind == GatherSubsets

SpecWind == InitWind /\ [][NextWind]_vars

(***************************************************************************)
(* download-crop-balanced.py: main()                                       *)
(*                                                                         *)
(* A URL is <<scheme, file name>>: the catalogue lists a granule under     *)
(* several links, so a file name may occur more than once.  A directory is *)
(* a function from the names of its *.nc files to what each file holds.    *)
(***************************************************************************)
MaxUrls == 2     \* URLs the catalogue queries return
MaxRuns == 2     \* runs of the script on the same directories

Urls == {<<"https", "f1.nc">>, <<"s3", "f1.nc">>, <<"https", "f2.nc">>}

\* os.path.basename(url)
Basename(url) == url[2]

\* how an iteration of the loop may go: everything completes, download_file
\* raises (before or after it opened the temp file), crop_netcdf raises
\* before it opens the output file, or after it opened it
Outcomes == {"completes", "download_raises", "download_raises_partway",
             "crop_raises", "crop_raises_partway"}

NoFiles == <<>>

\* the directory dir with the file name holding content
WriteFile(dir, name, content) ==
    [n \in DOMAIN dir \cup {name} |-> IF n = name THEN content ELSE dir[n]]

\* os.remove(path)
RemoveFile(dir, name) == [n \in DOMAIN dir \ {name} |-> dir[n]]

\* the names in cropped/ and the names of the files under 100 MB in the
\* main directory
get_existing_files(cropped_dir, main_dir) ==
    DOMAIN cropped_dir \cup {n \in DOMAIN main_dir : main_dir[n] = "small"}

\* the temp directory after download_file(url, temp_path)
AfterDownload(temp, name, outcome) ==
    CASE outcome = "download_raises"         -> temp
      [] outcome = "download_raises_partway" -> WriteFile(temp, name, "partial")
      [] OTHER                               -> WriteFile(temp, name, "complete")

\* the output directory after crop_netcdf(temp_path, output_path):
\* h5py.File(output_path, 'w') truncates the file and fills it in place
AfterCrop(cropped_dir, name, outcome) ==
    CASE outcome = "completes"           -> WriteFile(cropped_dir, name, "complete")
      [] outcome = "crop_raises_partway" -> WriteFile(cropped_dir, name, "partial")
      [] OTHER                           -> cropped_dir

\* main() up to the loop: the directories are read and the catalogue asked
StartRun ==
    /\ download.pc = "start"
    /\ download' = [download EXCEPT
                      !.pc = "loop",
                      !.i = 1,
                      !.existing_files =
                          get_existing_files(download.cropped_dir,
                                             download.main_dir)]
    /\ UNCHANGED <<sample_points, pollutants, merged, meteoVars, histVars, featVars, trainVars>>

\* one iteration of `for i, url in enumerate(urls, 1)`: existing_files is
\* the set read before the loop, and neither `os.remove(temp_path)` nor the
\* except clause touches output_path
ProcessUrl ==
    /\ download.pc = "loop"
    /\ download.i <= Len(download.urls)
    /\ LET filename == Basename(download.urls[download.i])
           present  == filename \in DOMAIN download.cropped_dir
       IN  IF filename \in download.existing_files
           THEN download' = [download EXCEPT
                    !.i = download.i + 1,
                    !.log = Append(download.log,
                                   [run |-> download.run, name |-> filename,
                                    present |-> present, step |-> "skip",
                                    held |-> IF present
                                             THEN download.cropped_dir[filename]
                                             ELSE "absent"])]
           ELSE \E outcome \in Outcomes :
                  LET temp == AfterDownload(download.temp_dir, filename, outcome)
                      out  == IF outcome \in {"download_raises",
                                              "download_raises_partway"}
                              THEN download.cropped_dir
                              ELSE AfterCrop(download.cropped_dir, filename,
                                             outcome)
                  IN  download' = [download EXCEPT
                          !.i = download.i + 1,
                          !.temp_dir = RemoveFile(temp, filename),
                          !.cropped_dir = out,
                          !.log = Append(download.log,
                                   [run |-> download.run, name |-> filename,
                                    present |-> present, step |-> outcome,
                                    held |-> IF present
                                             THEN download.cropped_dir[filename]
                                             ELSE "absent"])]
    /\ UNCHANGED <<sample_points, pollutants, merged, meteoVars, histVars, featVars, trainVars>>

\* the loop is over and main() returns; the script may be run again
EndRun ==
    /\ download.pc = "loop"
    /\ download.i > Len(download.urls)
    /\ download' = [download EXCEPT
                      !.pc = IF download.run < MaxRuns THEN "start" ELSE "done",
                      !.run = IF download.run < MaxRuns THEN download.run + 1
                              ELSE download.run]
    /\ UNCHANGED <<sample_points, pollutants, merged, meteoVars, histVars, featVars, trainVars>>

\* the lists the catalogue queries may return
UrlLists == UNION {[1..n -> Urls] : n \in 0..MaxUrls}

InitDownload ==
    /\ \E urls \in UrlLists, main_dir \in {NoFiles, [n \in {"f2.nc"} |-> "small"],
                                          [n \in {"f2.nc"} |-> "large"]} :
         download = [pc |-> "start", run |-> 1, urls |-> urls, i |-> 1,
                     existing_files |-> {}, cropped_dir |-> NoFiles,
                     main_dir |-> main_dir, temp_dir |-> NoFiles,
                     log |-> <<>>]
    /\ sample_points = <<>> /\ pollutants = <<>> /\ merged = <<>>
    /\ MeteoIdle
    /\ HistIdle
    /\ FeatIdle
    /\ TrainIdle

NextDownload == StartRun \/ ProcessUrl \/ EndRun

SpecDownload == InitDownload /\ [][NextDownload]_vars

(***************************************************************************)
(* aggregate-epa-history.py: merge_pollutants                              *)
(*                                                                         *)
(* A pollutant table (the return value of process_csv) is None or holds    *)
(* one aqi_avg per (lat, lng, timestamp) key; a cell of the merged frame   *)
(* is a number or the NaN the outer join fills in.                         *)
(***************************************************************************)
MaxKeys == 2     \* (lat, lng, timestamp) keys

MergeKeys == 1..MaxKeys

AqiValues == {40, 90}

NoTable == [present |-> FALSE, rows |-> <<>>]

\* the tables process_csv may return: groupby leaves one row per key
PollutantTables ==
    {NoTable} \cup
    {[present |-> TRUE, rows |-> r] :
        r \in UNION {[ks -> AqiValues] : ks \in SUBSET MergeKeys \ {{}}}}

AqiCell(v) == [isna |-> FALSE, v |-> v]

NACell == [isna |-> TRUE, v |-> 0]

\* the name `aqi_avg` gets from suffixes=('', f'_{name}'): the frame merged
\* first keeps the plain name, whichever pollutant it holds
AqiColumn(position, name) ==
    IF position = 1 THEN "aqi_avg"
    ELSE CASE name = "NO2"  -> "aqi_avg_NO2"
           [] name = "O3"   -> "aqi_avg_O3"
           [] name = "PM25" -> "aqi_avg_PM25"

\* result[aqi_cols].max(axis=1): NaN cells are skipped
RowMax(cols, cs) ==
    LET vals == {cols[c].v : c \in {x \in cs : ~cols[x].isna}}
    IN  IF vals = {} THEN NACell
        ELSE AqiCell(CHOOSE m \in vals : \A v \in vals : v <= m)

get_dominant_pollutant(row) ==
    LET max_aqi == row.aqi_general_avg
    IN  IF max_aqi.isna THEN "None"
        ELSE IF "aqi_avg" \in DOMAIN row.cols /\ row.cols["aqi_avg"] = max_aqi
             THEN "NO2"
        ELSE IF "aqi_avg_O3" \in DOMAIN row.cols
                /\ row.cols["aqi_avg_O3"] = max_aqi
             THEN "O3"
        ELSE IF "aqi_avg_PM25" \in DOMAIN row.cols
                /\ row.cols["aqi_avg_PM25"] = max_aqi
             THEN "PM25"
        ELSE "None"

merge_pollutants(no2_df, o3_df, pm25_df) ==
    LET given == <<[name |-> "NO2", df |-> no2_df],
                   [name |-> "O3", df |-> o3_df],
                   [name |-> "PM25", df |-> pm25_df]>>
        IsGiven(e) == e.df.present
        dfs     == SelectSeq(given, IsGiven)
        columns == {AqiColumn(i, dfs[i].name) : i \in 1..Len(dfs)}
        keys    == UNION {DOMAIN dfs[i].df.rows : i \in 1..Len(dfs)}
        Joined(k) ==
            [c \in columns |->
                LET i == CHOOSE j \in 1..Len(dfs) : AqiColumn(j, dfs[j].name) = c
                IN  IF k \in DOMAIN dfs[i].df.rows
                    THEN AqiCell(dfs[i].df.rows[k]) ELSE NACell]
        aqi_cols == {"aqi_avg", "aqi_avg_O3", "aqi_avg_PM25"} \cap columns
        WithGeneral(k) ==
            [key |-> k, cols |-> Joined(k),
             aqi_general_avg |-> RowMax(Joined(k), aqi_cols)]
        Labelled(k) ==
            [key |-> k, cols |-> Joined(k),
             aqi_general_avg |-> WithGeneral(k).aqi_general_avg,
             dominant_pollutant |-> get_dominant_pollutant(WithGeneral(k))]
    IN  IF dfs = <<>>
        THEN [status |-> "ValueError", rows |-> {}]
        ELSE [status |-> "ok", rows |-> {Labelled(k) : k \in keys}]

\* main(): merged_df = merge_pollutants(no2_df, o3_df, pm25_df)
MergePollutants ==
    /\ pollutants # <<>>
    /\ merged = <<>>
    /\ merged' = merge_pollutants(pollutants["NO2"], pollutants["O3"],
                                  pollutants["PM25"])
    /\ UNCHANGED <<sample_points, download, pollutants, meteoVars, histVars, featVars, trainVars>>

InitMerge ==
    /\ \E no2_df \in PollutantTables, o3_df \in PollutantTables,
          pm25_df \in PollutantTables :
         pollutants = [n \in {"NO2", "O3", "PM25"} |->
                          CASE n = "NO2" -> no2_df
                            [] n = "O3"  -> o3_df
                            [] OTHER     -> pm25_df]
    /\ merged = <<>>
    /\ sample_points = <<>> /\ download = <<>>
    /\ MeteoIdle
    /\ HistIdle
    /\ FeatIdle
    /\ TrainIdle

NextMerge == MergePollutants

SpecMerge == InitMerge /\ [][NextMerge]_vars

(***************************************************************************)
(* Claims about interpolate_meteo                                          *)
(***************************************************************************)
SumOver(S, F(_)) ==
    LET RECURSIVE Go(_)
        Go(T) == IF T = {} THEN Num(0)
                 ELSE LET x == CHOOSE y \in T : TRUE
                      IN  RAdd(F(x), Go(T \ {x}))
    IN  Go(S)

Answered == meteo_result.status = "ok"

\* the stations the k-NN step selects for the query just answered
Selected ==
    get_nearest_cities(city_locations, meteo_query.lat, meteo_query.lon,
                       meteo_query.k)

\* the stations of sel holding a record at exactly the queried timestamp
Matching(sel) ==
    {i \in 1..Len(sel) :
        \E j \in 1..Len(CityTimes(cities_data, sel[i][1])) :
            CityTimes(cities_data, sel[i][1])[j] = meteo_query.timestamp}

\* the value of station sel[i] for var at the queried timestamp
\* (None: a null entry, or an array that does not reach that index)
ValueAt(sel, i, var) ==
    LET city == cities_data[sel[i][1]]
        j    == CHOOSE j \in 1..Len(city.times) :
                    /\ city.times[j] = meteo_query.timestamp
                    /\ \A h \in 1..(j - 1) : city.times[h] # meteo_query.timestamp
        arr  == city.vals[var].items
    IN  IF j \in 1..Len(arr) THEN arr[j] ELSE None

Contributing(sel, m, var) == {i \in m : ValueAt(sel, i, var) # None}

\* 1 / (distance_km + 0.1)^2, the distance being ISqrt(.)/10 km
IdwWeight(sel, i) ==
    Frac(100, (ISqrt(sel[i][2]) + 1) * (ISqrt(sel[i][2]) + 1))

\* sum of value*weight over the contributing stations c, divided by the
\* sum of the weights of all matching stations m
IdwAverage(sel, m, c, var) ==
    LET Term(i) == RMul(ValueAt(sel, i, var), IdwWeight(sel, i))
        W(i)    == IdwWeight(sel, i)
    IN  RDiv(SumOver(c, Term), SumOver(m, W))

\* C1: every interpolated variable is the sum of value*weight over the
\* selected, matching stations with a non-null value, divided by the sum of
\* the weights of ALL selected, matching stations, weight = 1/(d + 0.1)^2.
C1_WeightedAverage ==
    Answered =>
        LET sel == Selected
            m   == Matching(sel)
        IN  \A var \in MeteoVarSet :
                LET c == Contributing(sel, m, var)
                IN  c # {} => meteo_result.rec[var] = IdwAverage(sel, m, c, var)

\* a station with a null value adds its weight to the denominator only
C1_Witness ==
    /\ Answered
    /\ LET sel == Selected
           m   == Matching(sel)
           c   == Contributing(sel, m, "wind_speed")
       IN  c # {} /\ c # m /\ Cardinality(m) >= 2

\* C2: when no selected station holds the queried timestamp (an empty index
\* included) the call returns exactly the default record.
C2_DefaultWhenNoMatch ==
    (meteo_result # NoResult /\ Matching(Selected) = {}) =>
        /\ meteo_result.status = "ok"
        /\ meteo_result.rec = [var \in MeteoVarSet |->
               CASE var = "wind_speed"        -> Num(5)
                 [] var = "wind_direction"    -> Num(270)
                 [] var = "temperature"       -> Num(20)
                 [] var = "precipitation"     -> Num(0)
                 [] var = "pbl_height"        -> Num(800)
                 [] var = "surface_pressure"  -> Num(1013)
                 [] var = "relative_humidity" -> Num(60)
                 [] var = "cloud_cover"       -> Num(50)]

\* stations were selected, none of them has the timestamp
C2_Witness ==
    /\ meteo_result # NoResult
    /\ Len(Selected) >= 2
    /\ Matching(Selected) = {}

\* C3: with a matching station but no non-null value for a variable, that
\* variable takes its default; the variables that do have a value are still
\* the weighted average of the station data.
C3_PerVariableDefault ==
    Answered =>
        LET sel      == Selected
            m        == Matching(sel)
            c(var)   == Contributing(sel, m, var)
            lacking  == {var \in MeteoVarSet : c(var) = {}}
        IN  (m # {} /\ lacking # {}) =>
                /\ \A var \in lacking : meteo_result.rec[var] = DefaultMeteo(var)
                /\ \A var \in MeteoVarSet \ lacking :
                       meteo_result.rec[var] = IdwAverage(sel, m, c(var), var)

\* wind_speed is null at every matching station, temperature is not
C3_Witness ==
    /\ Answered
    /\ LET sel == Selected
           m   == Matching(sel)
       IN  /\ m # {}
           /\ Contributing(sel, m, "wind_speed") = {}
           /\ Contributing(sel, m, "temperature") # {}
    /\ meteo_result.rec["wind_speed"] = Num(5)
    /\ meteo_result.rec["temperature"] # Num(20)

\* C4: interpolate_meteo never raises and returns all eight variables.
C4_NeverRaises ==
    meteo_result # NoResult =>
        /\ meteo_result.status = "ok"
        /\ DOMAIN meteo_result.rec = MeteoVarSet

(***************************************************************************)
(* Claims about calculate_epa_historical_features                          *)
(***************************************************************************)
\* the features stored for row r
Stored(r) == historical_cache.cache[StationId(r.station)][Strftime(r.timestamp)]

\* the rows of r's station observed from `from` to r's own time
SameStationSince(r, from) ==
    {q \in epa_df : /\ q.station = r.station
                    /\ from <= q.timestamp
                    /\ q.timestamp <= r.timestamp}

MeanOf(rows) == RDiv(ValueSum(rows), Num(Cardinality(rows)))

\* C5 as stated: no2_avg_24h[t] is the mean of the station's values with
\* timestamp in the closed interval [t-24h, t].
C5_Avg24hClosedWindow ==
    historical_cache.built =>
        \A r \in epa_df :
            Stored(r).no2_avg_24h =
                MeanOf(SameStationSince(r, r.timestamp - 24 * Hour))

\* C5 as amended: no2_avg_24h[t] is the mean of the station's values with
\* timestamp in (t-24h, t]: a record at exactly t-24h is left out.
C5_Avg24hHalfOpenWindow ==
    historical_cache.built =>
        \A r \in epa_df :
            Stored(r).no2_avg_24h =
                MeanOf(SameStationSince(r, r.timestamp - 24 * Hour + 1))

\* a station with records at t-24h and at t that differ
C5_Witness ==
    /\ historical_cache.built
    /\ \E r, q \in epa_df :
         /\ q.station = r.station
         /\ q.timestamp = r.timestamp - 24 * Hour
         /\ q.value # r.value

\* C6: no2_avg_24h[t] is unchanged when every row older than 24 hours and
\* every row of another station is taken out of the table, and the series
\* 0h:10, 23h:20, 25h:5 gives 12.5 at 25h.
C6_TimeBoundedWindow ==
    historical_cache.built =>
        /\ \A r \in epa_df :
             Stored(r).no2_avg_24h =
                 calculate_epa_historical_features(
                     SameStationSince(r, r.timestamp - 24 * Hour)
                 )[StationId(r.station)][Strftime(r.timestamp)].no2_avg_24h
        /\ \A site \in Sites :
             {q \in epa_df : q.station = site} =
                 {[station |-> site, timestamp |-> 0, value |-> Num(10)],
                  [station |-> site, timestamp |-> 23 * Hour, value |-> Num(20)],
                  [station |-> site, timestamp |-> 25 * Hour, value |-> Num(5)]}
             => Stored([station |-> site, timestamp |-> 25 * Hour,
                        value |-> Num(5)]).no2_avg_24h = Frac(25, 2)

\* the series of the example: one row lies only 2 rows but 25 hours back
C6_Witness ==
    /\ historical_cache.built
    /\ \E site \in Sites :
         epa_df = {[station |-> site, timestamp |-> 0, value |-> Num(10)],
                   [station |-> site, timestamp |-> 23 * Hour, value |-> Num(20)],
                   [station |-> site, timestamp |-> 25 * Hour, value |-> Num(5)]}

\* C7: with no record of the station at exactly t-24h the stored trend is 0.
C7_TrendDefault ==
    historical_cache.built =>
        \A r \in epa_df :
            (\A q \in epa_df :
                ~(q.station = r.station /\ q.timestamp + 24 * Hour = r.timestamp))
            => Stored(r).no2_trend_24h = Num(0)

\* two earlier rows of the station, neither at t-24h
C7_Witness ==
    /\ historical_cache.built
    /\ \E r \in epa_df :
         /\ Cardinality({q \in epa_df : q.station = r.station
                                        /\ q.timestamp < r.timestamp}) >= 2
         /\ \A q \in epa_df : q.timestamp + 24 * Hour # r.timestamp
         /\ \A q \in epa_df \ {r} : q.value # r.value

\* C8: with a record of the station at exactly t-24h the stored trend is
\* (value[t] - value[t-24h]) / (|value[t-24h]| + 0.1), whatever rows lie
\* in between.
C8_TrendFormula ==
    historical_cache.built =>
        \A r, q \in epa_df :
            (q.station = r.station /\ q.timestamp + 24 * Hour = r.timestamp)
            => Stored(r).no2_trend_24h =
                   RDiv(RSub(r.value, q.value),
                        RAdd(IF q.value.n < 0 THEN RNeg(q.value) ELSE q.value,
                             Frac(1, 10)))

\* the record at t-24h is not the previous row
C8_Witness ==
    /\ historical_cache.built
    /\ \E r, q, p \in epa_df :
         /\ q.station = r.station /\ p.station = r.station
         /\ q.timestamp + 24 * Hour = r.timestamp
         /\ q.timestamp < p.timestamp /\ p.timestamp < r.timestamp
         /\ p.value # q.value
         /\ Stored(r).no2_trend_24h # Num(0)

(***************************************************************************)
(* Claims about the aggregates of extract_features                         *)
(***************************************************************************)
SubsetNames == {"5km", "10km", "20km", "upwind_10km", "upwind_20km",
                "upwind_30km", "downwind_10km", "north", "east", "south",
                "west"}

\* the cells extract_features gathers for a subset
SubsetCells(name) ==
    CASE name = "5km"  -> get_cells_in_radius(cells, EpaRow.latitude, EpaRow.longitude, 5)
      [] name = "10km" -> get_cells_in_radius(cells, EpaRow.latitude, EpaRow.longitude, 10)
      [] name = "20km" -> get_cells_in_radius(cells, EpaRow.latitude, EpaRow.longitude, 20)
      [] name = "upwind_10km" ->
             get_upwind_cells(cells, EpaRow.latitude, EpaRow.longitude, wind_dir, 10, 5)
      [] name = "upwind_20km" ->
             get_upwind_cells(cells, EpaRow.latitude, EpaRow.longitude, wind_dir, 20, 5)
      [] name = "upwind_30km" ->
             get_upwind_cells(cells, EpaRow.latitude, EpaRow.longitude, wind_dir, 30, 5)
      [] name = "downwind_10km" ->
             get_downwind_cells(cells, EpaRow.latitude, EpaRow.longitude, wind_dir, 10, 5)
      [] name = "north" ->
             get_cells_in_direction(cells, EpaRow.latitude, EpaRow.longitude,
                                    0, 10, 5)
      [] name = "east" ->
             get_cells_in_direction(cells, EpaRow.latitude, EpaRow.longitude,
                                    90, 10, 5)
      [] name = "south" ->
             get_cells_in_direction(cells, EpaRow.latitude, EpaRow.longitude,
                                    180, 10, 5)
      [] name = "west" ->
             get_cells_in_direction(cells, EpaRow.latitude, EpaRow.longitude,
                                    270, 10, 5)

\* the feature fields that aggregate a subset ("": the vector has none)
SubsetFields(name) ==
    CASE name \in {"5km", "10km", "20km"} ->
             [avg |-> "no2_avg_" \o name, max |-> "no2_max_" \o name,
              min |-> "no2_min_" \o name, std |-> "no2_std_" \o name]
      [] name \in {"upwind_10km", "upwind_20km", "upwind_30km", "downwind_10km"} ->
             [avg |-> "no2_" \o name \o "_avg", max |-> "no2_" \o name \o "_max",
              min |-> "", std |-> "no2_" \o name \o "_std"]
      [] OTHER ->
             [avg |-> "no2_" \o name \o "_10km", max |-> "", min |-> "",
              std |-> "no2_" \o name \o "_std_10km"]

\* the finite, strictly positive values of a list of cells
ValidValues(cs) ==
    LET kept == SelectSeq(cs, LAMBDA c : c.no2_column.tag = "num"
                                         /\ c.no2_column.n > 0)
    IN  [i \in 1..Len(kept) |-> kept[i].no2_column]

\* C9: every aggregate of every subset is computed from the finite,
\* strictly positive cell values of the subset and from nothing else.
C9_AggregatesUseOnlyValid ==
    features.status = "ok" =>
        \A name \in SubsetNames :
            LET valid == ValidValues(SubsetCells(name))
                f     == SubsetFields(name)
            IN  /\ features.vec[f.avg] = safe_avg(valid)
                /\ features.vec[f.std] = safe_std(valid)
                /\ f.max # "" => features.vec[f.max] = safe_max(valid)
                /\ f.min # "" => features.vec[f.min] = safe_min(valid)

\* C10: a subset without a finite, strictly positive value has avg, max,
\* min and std 0, and a gradient between two such subsets is 0.
C10_EmptySubsetZero ==
    features.status = "ok" =>
        LET empty(name) == ValidValues(SubsetCells(name)) = <<>>
        IN  /\ \A name \in SubsetNames :
                 empty(name) =>
                     LET f == SubsetFields(name)
                     IN  /\ features.vec[f.avg] = Num(0)
                         /\ features.vec[f.std] = Num(0)
                         /\ f.max # "" => features.vec[f.max] = Num(0)
                         /\ f.min # "" => features.vec[f.min] = Num(0)
            /\ (empty("north") /\ empty("south")) =>
                   features.vec.gradient_NS = Num(0)
            /\ (empty("east") /\ empty("west")) =>
                   features.vec.gradient_EW = Num(0)
            /\ (empty("upwind_10km") /\ empty("downwind_10km")) =>
                   features.vec.gradient_upwind_downwind = Num(0)

(***************************************************************************)
(* Claims about the result of extract_features                             *)
(***************************************************************************)
Extracted == features.status # "none"

\* C11: extract_features returns None exactly when the cell list is empty,
\* and returns a feature vector for every non-empty cell list.
C11_NoneIffEmpty ==
    Extracted =>
        /\ features.status = "None" <=> cells = <<>>
        /\ cells # <<>> => features.status = "ok"

ClaimedFactor(h) ==
    CASE h \in 14..17 -> Frac(115, 100)
      [] h \in 18..23 -> Frac(85, 100)
      [] h \in 0..3   -> Frac(11, 10)
      [] h \in 4..13  -> Num(1)

\* C13: the physics_prediction of extract_features is the surface estimate
\* of the centre cell times 1.15, 0.85, 1.10 or 1.0 according to the local
\* hour (UTC hour - 8) mod 24 lying in [6,10), [10,16), [16,20) or elsewhere.
C13_DiurnalFactor ==
    features.status = "ok" =>
        LET h     == call.hour
            local == IF h >= 8 THEN h - 8 ELSE h + 16
            base  == convert_no2_to_surface(cells[1].no2_column, call.pbl_height)
        IN  /\ ClaimedFactor(h) =
                   (IF 6 <= local /\ local < 10 THEN Frac(115, 100)
                    ELSE IF 10 <= local /\ local < 16 THEN Frac(85, 100)
                    ELSE IF 16 <= local /\ local < 20 THEN Frac(11, 10)
                    ELSE Num(1))
            /\ features.vec.physics_prediction =
                   (IF base.tag = "num" THEN RMul(base, ClaimedFactor(h)) ELSE base)

C13_Witness ==
    /\ features.status = "ok"
    /\ call.hour = 2
    /\ cells[1].no2_column = Num(6)
    /\ call.pbl_height = 250
    /\ features.vec.physics_prediction =
           RMul(RMul(RMul(RMul(Num(6), Frac(1, 5)), Frac(18749, 10000)),
                     Frac(163, 100)), Frac(11, 10))

(***************************************************************************)
(* Claims about the clock and history fields of extract_features           *)
(***************************************************************************)
\* C14: every returned vector has month_sin = sin(2*pi*month/12) and
\* month_cos = cos(2*pi*month/12), with or without a timestamp argument.
C14_MonthEncoding ==
    features.status = "ok" =>
        /\ features.vec.month_sin = [tag |-> "sin", n |-> call.month, d |-> 12]
        /\ features.vec.month_cos = [tag |-> "cos", n |-> call.month, d |-> 12]

\* the entry of the index under the call's station and formatted timestamp
HasEntry ==
    /\ call.epa_historical # <<>>
    /\ call.station_id # <<>>
    /\ call.timestamp # <<>>
    /\ call.station_id[1] \in DOMAIN call.epa_historical[1]
    /\ Strftime(call.timestamp[1])
           \in DOMAIN call.epa_historical[1][call.station_id[1]]

\* C15: no2_avg_24h, no2_avg_7d and no2_trend_24h are the values the index
\* holds under (station_id, 'YYYY-MM-DD HH:MM:SS' of the timestamp) when the
\* entry exists and 0 otherwise (unknown station, timestamp without entry,
\* missing argument); the lookup never raises.
C15_HistoricalLookup ==
    (Extracted /\ cells # <<>>) =>
        /\ features.status = "ok"
        /\ HasEntry =>
               LET e == call.epa_historical[1][call.station_id[1]]
                            [Strftime(call.timestamp[1])]
               IN  /\ features.vec.no2_avg_24h = e.no2_avg_24h
                   /\ features.vec.no2_avg_7d = e.no2_avg_7d
                   /\ features.vec.no2_trend_24h = e.no2_trend_24h
        /\ ~HasEntry =>
               /\ features.vec.no2_avg_24h = Num(0)
               /\ features.vec.no2_avg_7d = Num(0)
               /\ features.vec.no2_trend_24h = Num(0)

\* the entry of 24h of station 6_037_0002: means 20 and 15, trend 10/10.1
C15_Witness ==
    /\ features.status = "ok"
    /\ HasEntry
    /\ features.vec.no2_avg_24h = Num(20)
    /\ features.vec.no2_avg_7d = Num(15)
    /\ features.vec.no2_trend_24h = Frac(100, 101)

(***************************************************************************)
(* Claims about the order of the fields                                    *)
(***************************************************************************)
ExpectedKeys ==
    LiteralKeys \o
    <<"no2_avg_24h", "no2_avg_7d", "no2_trend_24h",
      "wind_speed_x_upwind_no2", "hour_x_urban", "pbl_x_center_no2",
      "day_of_year", "month_sin", "month_cos">>

\* C16: every returned vector has the same field names in the same
\* insertion order whatever the inputs, and both /predict handlers read the
\* request's values in the order of the persisted feature-name list,
\* whatever the order of the keys in the request.
C16_StableFieldOrder ==
    /\ features.status = "ok" =>
           /\ features.keys = ExpectedKeys
           /\ DOMAIN features.vec = {ExpectedKeys[i] : i \in 1..Len(ExpectedKeys)}
           /\ Cardinality(DOMAIN features.vec) = Len(ExpectedKeys)
    /\ (served.handler # "none" /\ served.order # "incomplete") =>
           /\ served.status = 200
           /\ Len(served.X) = Len(ExpectedKeys)
           /\ \A i \in 1..Len(ExpectedKeys) :
                  served.X[i] = features.vec[ExpectedKeys[i]]

C16_Witness ==
    /\ call.timestamp = <<>>
    /\ call.epa_historical = <<>>
    /\ features.status = "ok"
    /\ served.handler = "predict_no2"
    /\ served.order = "reversed"
    /\ served.status = 200
    /\ served.X[1] = cells[1].no2_column
    /\ served.X[64] = Num(0)

(***************************************************************************)
(* Claims about the gradients                                              *)
(***************************************************************************)
CellsNorth == {i \in 1..Len(cells) : cells[i].latitude > EpaRow.latitude}
CellsSouth == {i \in 1..Len(cells) : cells[i].latitude < EpaRow.latitude}

\* there are cells on both sides, all with valid values, and every cell
\* north of the site has a strictly higher value than every cell south
NorthAboveSouth ==
    /\ CellsNorth # {} /\ CellsSouth # {}
    /\ \A i \in CellsNorth \cup CellsSouth :
           cells[i].no2_column.tag = "num" /\ cells[i].no2_column.n > 0
    /\ \A i \in CellsNorth, j \in CellsSouth :
           RLess(cells[j].no2_column, cells[i].no2_column)

\* C17: when every cell north of the target has a strictly higher value
\* than every cell south of it, gradient_NS > 0, also when the north or the
\* south sampling circle captures no cell.
C17_GradientSign ==
    (features.status = "ok" /\ NorthAboveSouth) =>
        /\ features.vec.gradient_NS.tag = "num"
        /\ features.vec.gradient_NS.n > 0

(***************************************************************************)
(* Claims about the training driver                                        *)
(***************************************************************************)
\* the snapshot file reaches the loop over the EPA rows
ReachesRows(f) ==
    /\ f.fields >= 5 /\ f.time_ok /\ f.returncode = 0 /\ f.json_ok
    /\ f.cells # <<>>

\* the targets of the samples taken from the snapshot of time ts, in order
TargetsOf(samples, ts) ==
    LET own == SelectSeq(samples, LAMBDA x : x.vec.timestamp = ts)
    IN  [k \in 1..Len(own) |-> own[k].vec.target]

\* the value of the grid cell nearest to the site of an EPA row
CenterOf(f, r) ==
    find_nearest_cell(f.cells, SiteLocation(r.station)[1],
                      SiteLocation(r.station)[2])[1].no2_column

\* the measurements that pass both tests, in the order of the table
PassingTargets(f) ==
    LET rows == SelectSeq(MatchingEpa(TrainEpa, f.timestamp), LAMBDA r :
                    /\ CenterOf(f, r).tag = "num" /\ CenterOf(f, r).n > 0
                    /\ r.value.tag = "num" /\ r.value.n >= 0)
    IN  [k \in 1..Len(rows) |-> rows[k].value]

\* C18: at every point of the extraction loop every record of samples has a
\* finite, strictly positive no2_column_center and a finite, non-negative
\* target, and the records taken from a snapshot are exactly the vectors
\* that pass both tests, in order: a dropped vector changes nothing before
\* or after it
C18_SamplesPassTheGate ==
    /\ \A k \in 1..Len(train.samples) :
         LET x == train.samples[k].vec
         IN  /\ x.no2_column_center.tag = "num" /\ x.no2_column_center.n > 0
             /\ x.target.tag = "num" /\ x.target.n >= 0
    /\ \A j \in 1..(train.i - 1) :
         ReachesRows(tempo_files[j]) =>
             TargetsOf(train.samples, tempo_files[j].timestamp)
                 = PassingTargets(tempo_files[j])

\* the "good" snapshot has been processed: of its five rows the first and
\* the last were kept; the row over a nan cell, the negative and the
\* missing measurement between them were dropped
C18_Witness ==
    /\ \E j \in 1..(train.i - 1) : tempo_files[j].kind = "good"
    /\ Len(MatchingEpa(TrainEpa, Snapshot("good").timestamp)) = 5
    /\ TargetsOf(train.samples, Snapshot("good").timestamp) = <<Num(5), Num(0)>>

\* a snapshot file with too few name fields or an unparseable time, whose
\* subprocess fails or prints invalid JSON, or whose grid has no cells
Malformed(f) ==
    \/ f.fields < 5 \/ ~f.time_ok \/ f.returncode # 0 \/ ~f.json_ok
    \/ f.cells = <<>>

\* a station file that is unreadable, lacks coordinates or has no times
Unusable(name) ==
    openmeteo_dir[name] \in {"unreadable", "no_coords", "no_times"}

\* the station has an entry in both tables of the index
Loaded(name) ==
    /\ name \in DOMAIN cities_data
    /\ \E p \in 1..Len(city_locations) : city_locations[p][1] = name

\* the station has an entry in neither table of the index
Skipped(name) ==
    /\ name \notin DOMAIN cities_data
    /\ \A p \in 1..Len(city_locations) : city_locations[p][1] # name

\* C19: a malformed snapshot file is skipped (it leaves no sample) and every
\* other file the loop has reached, before or after it, has its samples; an
\* unusable station file is skipped and every full station file the
\* constructor has reached is loaded
C19_BadInputsAreSkipped ==
    /\ \A j \in 1..(train.i - 1) :
         IF Malformed(tempo_files[j])
         THEN TargetsOf(train.samples, tempo_files[j].timestamp) = <<>>
         ELSE Len(TargetsOf(train.samples, tempo_files[j].timestamp))
                  = Len(PassingTargets(tempo_files[j]))
    /\ \A p \in 1..(next_file - 1) :
         /\ Unusable(json_files[p]) => Skipped(json_files[p])
         /\ openmeteo_dir[json_files[p]] = "full" => Loaded(json_files[p])

\* the run is over; a malformed snapshot was followed by one that gave
\* samples, and an unusable station file by one that was loaded
C19_Witness ==
    /\ train.pc = "done"
    /\ \E j, k \in 1..Len(tempo_files) :
         /\ j < k /\ Malformed(tempo_files[j])
         /\ TargetsOf(train.samples, tempo_files[k].timestamp) # <<>>
    /\ \E p, q \in 1..Len(json_files) :
         /\ p < q /\ Unusable(json_files[p]) /\ Loaded(json_files[q])

\* C20: when no meteorological station can be loaded, or when no snapshot
\* file is found, the run aborts with an error propagated to its caller:
\* it neither extracts features with default meteorology nor returns
\* normally
C20_SystemicFailureAborts ==
    (train.pc # "load" /\ (train.meteo_cache = <<>> \/ tempo_files = <<>>))
        => /\ train.outcome # "returned"
           /\ train.samples = <<>>

(***************************************************************************)
(* Claims about get_nearest_cities                                         *)
(***************************************************************************)
\* the answer of get_nearest_cities to the query of the last Interpolate
Nearest ==
    get_nearest_cities(city_locations, meteo_query.lat, meteo_query.lon,
                       meteo_query.k)

\* the distance of a station of the index to the query point
DistanceTo(name) ==
    LET p == CHOOSE i \in 1..Len(city_locations) : city_locations[i][1] = name
    IN  haversine_distance(meteo_query.lat, meteo_query.lon,
                           city_locations[p][2], city_locations[p][3])

StationNames == {city_locations[i][1] : i \in 1..Len(city_locations)}

\* C21: get_nearest_cities(lat, lon, k) returns exactly min(k, number of
\* loaded stations) entries, each a distinct loaded station with its
\* distance, in non-decreasing order of distance, and no station left out
\* is strictly nearer than a station returned; with zero stations it
\* returns the empty list
C21_NearestCities ==
    meteo_result # NoResult =>
        /\ Len(Nearest) = Min2(meteo_query.k, Len(city_locations))
        /\ \A i \in 1..Len(Nearest) :
             /\ Nearest[i][1] \in StationNames
             /\ Nearest[i][2] = DistanceTo(Nearest[i][1])
        /\ \A i, j \in 1..Len(Nearest) : i # j => Nearest[i][1] # Nearest[j][1]
        /\ \A i, j \in 1..Len(Nearest) : i < j => Nearest[i][2] <= Nearest[j][2]
        /\ \A n \in StationNames :
             (\A i \in 1..Len(Nearest) : Nearest[i][1] # n) =>
                 \A i \in 1..Len(Nearest) : DistanceTo(n) >= Nearest[i][2]
        /\ city_locations = <<>> => Nearest = <<>>

\* a query for one station of an index of three, whose nearest station is
\* not the first of the dictionary
C21_Witness ==
    /\ meteo_result # NoResult
    /\ Len(city_locations) = 3 /\ meteo_query.k = 1
    /\ Len(Nearest) = 1
    /\ Nearest[1][1] # city_locations[1][1]
    /\ Nearest[1][2] < DistanceTo(city_locations[1][1])

(***************************************************************************)
(* Claims about the stations interpolate_meteo selects                     *)
(***************************************************************************)
\* the station holds a record at exactly the queried timestamp
HasTimestamp(name) ==
    IndexOf(CityTimes(cities_data, name), meteo_query.timestamp) > 0

\* the index without the stations outside a set of names
OnlyStations(names) == SelectSeq(city_locations, LAMBDA c : c[1] \in names)

NearestNames == {Nearest[i][1] : i \in 1..Len(Nearest)}

\* C23 as stated: interpolate_meteo averages over the k stations nearest to
\* the query point among the stations that have a record at exactly the
\* queried timestamp: farther stations that have it take the place of
\* nearer ones that lack it, so the result is the default record only if no
\* station at all has the timestamp
C23_NearestAmongMatching ==
    meteo_result # NoResult =>
        /\ meteo_result =
               interpolate_meteo(cities_data,
                   OnlyStations({n \in StationNames : HasTimestamp(n)}),
                   meteo_query.lat, meteo_query.lon, meteo_query.timestamp,
                   meteo_query.k)
        /\ meteo_result = [status |-> "ok", rec |-> DefaultRecord] =>
               \A n \in StationNames : ~HasTimestamp(n)

\* C23 as amended: interpolate_meteo averages over those of the k
\* overall-nearest stations that have a record at exactly the queried
\* timestamp: the answer is the one of the index reduced to the k
\* overall-nearest stations, and it is the default record whenever none of
\* them has the timestamp, even if a farther station has it
C23_MatchingAmongNearest ==
    meteo_result # NoResult =>
        /\ meteo_result =
               interpolate_meteo(cities_data, OnlyStations(NearestNames),
                   meteo_query.lat, meteo_query.lon, meteo_query.timestamp,
                   meteo_query.k)
        /\ (\A n \in NearestNames : ~HasTimestamp(n)) =>
               meteo_result = [status |-> "ok", rec |-> DefaultRecord]

\* none of the k nearest stations has the timestamp, a farther one has it,
\* and the answer is the default record
C23_Witness ==
    /\ meteo_result = [status |-> "ok", rec |-> DefaultRecord]
    /\ NearestNames # {}
    /\ \A n \in NearestNames : ~HasTimestamp(n)
    /\ \E n \in StationNames \ NearestNames : HasTimestamp(n)

(***************************************************************************)
(* Claims about the neighbour searches of extract_features                 *)
(***************************************************************************)
\* the distance of the i-th cell of the snapshot to the monitoring site
CellDistance(i) ==
    haversine_distance(EpaRow.latitude, EpaRow.longitude,
                       cells[i].latitude, cells[i].longitude)

\* the answer of find_nearest_cell in the last call of extract_features
CenterCell == find_nearest_cell(cells, EpaRow.latitude, EpaRow.longitude)

\* C24: find_nearest_cell returns a cell whose distance to the target is
\* minimal over all cells, and among several cells at the same minimal
\* distance the one that comes first in the cell list
C24_NearestCellFirstOfTies ==
    (Extracted /\ cells # <<>>) =>
        \E i \in 1..Len(cells) :
            /\ CenterCell = <<cells[i]>>
            /\ \A j \in 1..Len(cells) : CellDistance(i) <= CellDistance(j)
            /\ \A j \in 1..(i - 1) : CellDistance(j) # CellDistance(i)
            /\ features.status = "ok" =>
                   features.vec.no2_column_center = cells[i].no2_column

\* two cells at the same minimal distance with different values: the vector
\* carries the value of the first
C24_Witness ==
    /\ features.status = "ok"
    /\ Len(cells) = 2
    /\ CellDistance(1) = CellDistance(2)
    /\ cells[1].no2_column # cells[2].no2_column
    /\ features.vec.no2_column_center = cells[1].no2_column

\* the flat-earth distance of the i-th cell to the monitoring site
FlatDistance(i) ==
    flat_earth_distance(EpaRow.latitude, EpaRow.longitude,
                        cells[i].latitude, cells[i].longitude)

\* the positions of the cells within radius_km of the site, by haversine and
\* by the flat-earth distance
HaversineWithin(radius_km) ==
    {i \in 1..Len(cells) : CellDistance(i) <= (10 * radius_km) * (10 * radius_km)}

FlatEarthWithin(radius_km) ==
    {i \in 1..Len(cells) : FlatDistance(i) <= (10 * radius_km) * (10 * radius_km)}

\* the average the vector must carry for a neighbourhood made of the cells
\* at the positions idx
AvgOver(idx) ==
    safe_avg(extract_no2_values(
        SelectSeq(cells, LAMBDA c : \E i \in idx : cells[i] = c)))

\* the average of the r km neighbourhood in the vector
NeighbourAvg(r) ==
    CASE r = 5  -> features.vec.no2_avg_5km
      [] r = 10 -> features.vec.no2_avg_10km
      [] r = 20 -> features.vec.no2_avg_20km

PointOf(subset) ==
    sample_points[CHOOSE i \in 1..Len(sample_points) :
                      sample_points[i].subset = subset]

\* the bearings differ by exactly 180 degrees
Opposite(b, d) == b.off = d.off /\ Abs(b.deg - d.deg) = 180

\* the rest of the statement: upwind points along d at 10, 20 and 30 km,
\* the downwind point at 10 km along a bearing of [0, 360), the cardinal
\* points along 0, 90, 180 and 270 at 10 km, every radius 5 km
PointsAsStated ==
    /\ \A i \in 1..Len(sample_points) : sample_points[i].search_radius_km = 5
    /\ PointOf("upwind_10km").bearing = wind_dir
    /\ PointOf("upwind_20km").bearing = wind_dir
    /\ PointOf("upwind_30km").bearing = wind_dir
    /\ PointOf("upwind_10km").distance_km = 10
    /\ PointOf("upwind_20km").distance_km = 20
    /\ PointOf("upwind_30km").distance_km = 30
    /\ ~BelowWhole(PointOf("downwind_10km").bearing, 0)
    /\ BelowWhole(PointOf("downwind_10km").bearing, 360)
    /\ PointOf("downwind_10km").distance_km = 10
    /\ PointOf("north_10km").bearing = Whole(0)
    /\ PointOf("east_10km").bearing = Whole(90)
    /\ PointOf("south_10km").bearing = Whole(180)
    /\ PointOf("west_10km").bearing = Whole(270)
    /\ \A c \in {"north_10km", "east_10km", "south_10km", "west_10km"} :
           PointOf(c).distance_km = 10

\* C26 as stated: for every wind direction d in [0, 360) the upwind points
\* are projected along bearing d and the downwind point along
\* (d + 180) mod 360, which lies in [0, 360) and differs from d by exactly
\* 180 degrees; the cardinal points use bearings 0, 90, 180 and 270, and
\* every sample uses a 5 km collection radius
C26_OppositeExactly ==
    sample_points # <<>> =>
        /\ PointsAsStated
        /\ Opposite(PointOf("downwind_10km").bearing, wind_dir)

\* C26 as amended: as stated, but the downwind bearing differs from d by
\* 180 degrees up to the rounding of the sum d + 180 to a double (at most
\* half a spacing of the doubles around the sum), and by exactly 180
\* degrees when d is a whole number of degrees
C26_OppositeUpToRounding ==
    sample_points # <<>> =>
        LET b == PointOf("downwind_10km").bearing
        IN  /\ PointsAsStated
            /\ Abs(b.deg - wind_dir.deg) = 180
            /\ 2 * Abs(b.off - wind_dir.off)
                   <= UlpUnits([deg |-> wind_dir.deg + 180, off |-> wind_dir.off])
            /\ wind_dir.off = 0 => Opposite(b, wind_dir)

\* the double just below 180: the sum rounds to 360.0 and the downwind
\* bearing is 0.0
C26_Witness ==
    /\ sample_points # <<>>
    /\ wind_dir = [deg |-> 180, off |-> -1]
    /\ PointOf("downwind_10km").bearing = Whole(0)

(***************************************************************************)
(* Claims about the upwind and downwind subsets                            *)
(***************************************************************************)
\* C27: no cell belongs to both the upwind-10km and the downwind-10km
\* subset, and gradient_upwind_downwind is nonzero exactly when the average
\* of the valid (finite, strictly positive) upwind-10km values differs from
\* the average of the valid downwind-10km values
C27_UpwindDownwindDistinct ==
    features.status = "ok" =>
        LET upwind   == SubsetCells("upwind_10km")
            downwind == SubsetCells("downwind_10km")
        IN  /\ \A i \in 1..Len(upwind), j \in 1..Len(downwind) :
                 upwind[i] # downwind[j]
            /\ features.vec.gradient_upwind_downwind # Num(0)
                 <=> safe_avg(ValidValues(upwind)) # safe_avg(ValidValues(downwind))

(***************************************************************************)
(* Claims about the prediction servers                                     *)
(***************************************************************************)
\* C28: in scripts/ml-api-server.py and scripts/ml-api/app.py a POST
\* /predict whose features lack a name of the persisted feature-name list
\* is answered with HTTP status 400, and the model is not invoked
C28_MissingFeatures400 ==
    (served.handler \in {"predict", "ml-api-server"}
         /\ served.order = "incomplete") =>
        /\ served.status = 400
        /\ served.X = <<>>

(***************************************************************************)
(* Claims about the download-and-crop script                               *)
(***************************************************************************)
\* C22: for every URL of the list, file names that occur more than once
\* included, a file whose name is present in the cropped output directory
\* at the moment the URL is processed is never downloaded
C22_OnlyMissingFilesDownloaded ==
    download # <<>> =>
        \A k \in 1..Len(download.log) :
            download.log[k].present => download.log[k].step = "skip"

\* C29: after any run of the loop, runs in which a download or a crop
\* raised part-way included, a file exists in the cropped output directory
\* only if its download and its crop both completed, so a later run never
\* skips a partial file, and no temp file of a processed URL is left behind
C29_CroppedFilesComplete ==
    download # <<>> =>
        /\ \A n \in DOMAIN download.cropped_dir :
               download.cropped_dir[n] = "complete"
        /\ \A k \in 1..Len(download.log) :
               (download.log[k].step = "skip" /\ download.log[k].present) =>
                   download.log[k].held = "complete"
        /\ download.temp_dir = NoFiles

(***************************************************************************)
(* Claims about merge_pollutants                                           *)
(***************************************************************************)
\* the pollutants whose table holds the key
PresentIn(k) ==
    {n \in {"NO2", "O3", "PM25"} :
        pollutants[n].present /\ k \in DOMAIN pollutants[n].rows}

\* C30: for every non-empty subset of the tables NO2, O3 and PM25, each
\* merged row's dominant_pollutant names a pollutant that is present in the
\* row and whose average AQI equals the row's aqi_general_avg, the maximum
\* of the available average AQIs; with no table at all ValueError is raised
C30_DominantPollutantLabel ==
    merged # <<>> =>
        IF \A n \in {"NO2", "O3", "PM25"} : ~pollutants[n].present
        THEN merged.status = "ValueError"
        ELSE /\ merged.status = "ok"
             /\ \A row \in merged.rows :
                  /\ \A n \in PresentIn(row.key) :
                        pollutants[n].rows[row.key] <= row.aqi_general_avg.v
                  /\ row.dominant_pollutant \in PresentIn(row.key)
                  /\ pollutants[row.dominant_pollutant].rows[row.key]
                        = row.aqi_general_avg.v

=============================================================================
